---- MODULE Spec2Model ----
(***************************************************************************)
(* A state-machine model of the manga scraper's content-acquisition core:  *)
(* the per-source scheduler (SchedulerService), the job queue and its      *)
(* worker (ScrapingService on BullMQ), the browser session of a job        *)
(* attempt (BaseManager) and the image store (ImageStorageService).        *)
(***************************************************************************)
EXTENDS Integers, Sequences, FiniteSets, TLC

VARIABLES
    sources,             \* the sources table: source id -> row (partial function)
    timers,              \* every cron task created so far, by creation order
    scheduledTasks,      \* SchedulerService.scheduledTasks: source id -> timer index
    taskStates,          \* SchedulerService.taskStates: source id -> BOOLEAN
    isSchedulerRunning,  \* SchedulerService.isSchedulerRunning
    startAllPending,     \* startAllSchedules calls suspended at the sources query
    jobs,                \* the BullMQ queue 'manga-scraping': every job admitted, by id
    openContexts,        \* browser contexts created by initialize() and not closed
    lastRange,           \* the last scrapeMultiplePages request and the job ids it admitted
    files,               \* the image store: local path -> size of the stored file
    fetches,             \* remote fetches performed so far, per [url, path]
    lastCall,            \* the last image acquisition: its arguments, effects and result
    proxies,             \* ProxyService.proxies, in list order
    currentProxyIndex,   \* ProxyService.currentProxyIndex (0-based)
    failedProxies,       \* ProxyService.failedProxies: set of host:port keys
    proxyStats,          \* ProxyService.proxyStats: key -> [requests, failures]
    lastProxyCall,       \* the last ProxyService call: operation, argument, index before, result
    rotationRun,         \* the rotateProxy calls made in a row: index at the start, indices visited
    proxyConfig,         \* the proxy_config column of the sources table: source id -> endpoint
    lastAttempt,         \* the last job attempt: its session and what the proxy service saw
    lastRecord,          \* the last record the extraction built from an image acquisition
    db,                  \* the series and episodes tables: id -> row, and the rows inserted so far
    downloads,           \* downloadAndProcessImage calls in flight: caller -> position and arguments
    lastScrape,          \* the last manager call: its page, and what it returned
    callbacks            \* the cron callbacks fired so far, by firing order, and where each stands

schedVars == <<sources, timers, scheduledTasks, taskStates, isSchedulerRunning, startAllPending>>
queueVars == <<jobs, openContexts, lastRange>>
imageVars == <<files, fetches, lastCall>>
proxyVars == <<proxies, currentProxyIndex, failedProxies, proxyStats, lastProxyCall, rotationRun>>
extractVars == <<proxyConfig, lastAttempt, lastRecord, db, downloads, lastScrape, callbacks>>
vars == <<sources, timers, scheduledTasks, taskStates, isSchedulerRunning, startAllPending,
          jobs, openContexts, lastRange, files, fetches, lastCall,
          proxies, currentProxyIndex, failedProxies, proxyStats, lastProxyCall, rotationRun,
          proxyConfig, lastAttempt, lastRecord, db, downloads, lastScrape, callbacks>>

-----------------------------------------------------------------------------
(* Bounds of the model *)

MaxTimers == 3
MaxStartCalls == 2
MaxTicks == 3
MaxTickJobs == 2
MaxJobs == 3
MaxPoolJobs == 4
MaxAttemptJobs == 2
MaxPage == 3
MaxImages == 2
MaxFetches == 2

(* Partial functions stand for the Maps and tables of the program. *)
Put(f, k, v) == [x \in DOMAIN f \cup {k} |-> IF x = k THEN v ELSE f[x]]
Remove(f, k) == [x \in DOMAIN f \ {k} |-> f[x]]
EmptyMap == [x \in {} |-> 0]

\* the sequences over S of length at most n
SeqsUpTo(S, n) == UNION {[1..k -> S] : k \in 0..n}

-----------------------------------------------------------------------------
(* The sources table *)

SourceIds == {"s1", "s2"}
SourceOrder == <<"s1", "s2">>
Intervals == {30, 60}
\* scan_interval defaults to 60 in the schema
DefaultInterval == 60

SourceRow(active, interval, theme) ==
    [isActive |-> active, scanInterval |-> interval, theme |-> theme]

-----------------------------------------------------------------------------
(* The job queue: admission *)

NoUrl == "undefined"

JobData(sourceId, type, page, seriesUrl, episodeUrl) ==
    [sourceId |-> sourceId, type |-> type, page |-> page,
     seriesUrl |-> seriesUrl, episodeUrl |-> episodeUrl]

\* scrapingQueue.add('scrape', data, {priority, attempts: 3, backoff: exponential})
Attempts == 3

NewJob(data, priority) ==
    [data |-> data, priority |-> priority, attempts |-> Attempts,
     state |-> "waiting", attemptsMade |-> 0, started |-> 0, running |-> 0]

AddScrapingJob(q, data, priority) == Append(q, NewJob(data, priority))

\* startScrapingForSource(sourceId, type)
RecentPriority == 10

\* startScrapingForSource that admits the job twice
StartScrapingForSourceTwice(q, sourceId, type) ==
    AddScrapingJob(AddScrapingJob(q, JobData(sourceId, type, 1, NoUrl, NoUrl), RecentPriority),
                   JobData(sourceId, type, 1, NoUrl, NoUrl), RecentPriority)

StartScrapingForSource(q, sourceId, type) ==
    AddScrapingJob(q, JobData(sourceId, type, 1, NoUrl, NoUrl), RecentPriority)

\* POST /api/scraping/series and /episode: manual requests
ManualPriority == 15

PostSeries(q, sourceId, url) ==
    AddScrapingJob(q, JobData(sourceId, "series", 0, url, NoUrl), ManualPriority)

PostEpisode(q, sourceId, url) ==
    AddScrapingJob(q, JobData(sourceId, "episode", 0, NoUrl, url), ManualPriority)

\* scrapeMultiplePages(sourceId, startPage, endPage): one full job per page
PagePriority == 5

RECURSIVE ScrapeMultiplePagesExclusive(_, _, _, _)
ScrapeMultiplePagesExclusive(q, sourceId, page, endPage) ==
    IF page < endPage
    THEN ScrapeMultiplePagesExclusive(
             AddScrapingJob(q, JobData(sourceId, "full", page, NoUrl, NoUrl), PagePriority),
             sourceId, page + 1, endPage)
    ELSE q

RECURSIVE ScrapeMultiplePages(_, _, _, _)
ScrapeMultiplePages(q, sourceId, page, endPage) ==
    IF page <= endPage
    THEN ScrapeMultiplePages(
             AddScrapingJob(q, JobData(sourceId, "full", page, NoUrl, NoUrl), PagePriority),
             sourceId, page + 1, endPage)
    ELSE q

-----------------------------------------------------------------------------
(* The job queue: the worker (BullMQ Worker, concurrency 3) *)

Concurrency == 3

JobIds(q) == DOMAIN q
InState(q, st) == {j \in JobIds(q) : q[j].state = st}

\* the worker takes another job only while fewer than `concurrency` are in flight
WorkerCanPullOffByOne(q) == Cardinality(InState(q, "active")) <= Concurrency
WorkerCanPull(q) == Cardinality(InState(q, "active")) < Concurrency

\* BullMQ's order among waiting jobs: priority 0 (none) first, then the lowest
\* priority number first; a greater number is a lower priority
Precedes(a, b) ==
    \/ a.priority = 0 /\ b.priority # 0
    \/ a.priority # 0 /\ b.priority # 0 /\ a.priority < b.priority

IsNext(q, j) ==
    /\ q[j].state = "waiting"
    /\ \A k \in InState(q, "waiting") : ~Precedes(q[k], q[j])

MoveToActive(q, j) ==
    [q EXCEPT ![j].state = "active", ![j].started = @ + 1, ![j].running = @ + 1]

\* the processor returned: BullMQ moves the job to completed
MoveToCompleted(q, j) ==
    [q EXCEPT ![j].state = "completed", ![j].running = @ - 1]

\* the processor threw (the worker's catch rethrows): BullMQ counts the attempt,
\* retries after the backoff delay while attempts remain, and else fails the job
MoveToFailedOffByOne(q, j) ==
    [q EXCEPT ![j].attemptsMade = @ + 1, ![j].running = @ - 1,
              ![j].state = IF q[j].attemptsMade + 1 <= q[j].attempts
                           THEN "delayed" ELSE "failed"]
MoveToFailed(q, j) ==
    [q EXCEPT ![j].attemptsMade = @ + 1, ![j].running = @ - 1,
              ![j].state = IF q[j].attemptsMade + 1 < q[j].attempts
                           THEN "delayed" ELSE "failed"]

\* the backoff delay of a retried job has elapsed
Promote(q, j) == [q EXCEPT ![j].state = "waiting"]

-----------------------------------------------------------------------------
(* processScrapingJob and the browser session of BaseManager *)

Themes == {"themesia", "madara", "uzay"}

\* what the outside world does to one attempt
Envs == {"ok", "launchFails", "gotoFails", "scrapeFails"}

\* getSource + the isActive check + createManager: does the attempt get a manager?
HasManager(rows, data) ==
    /\ data.sourceId \in DOMAIN rows
    /\ rows[data.sourceId].isActive
    /\ rows[data.sourceId].theme \in Themes

\* BaseManager.initialize(): [thrown, contexts left open by it]
Initialize(env) ==
    CASE env = "launchFails" -> [thrown |-> TRUE, opened |-> 0]
      [] env = "gotoFails" -> [thrown |-> TRUE, opened |-> 1]
      [] OTHER -> [thrown |-> FALSE, opened |-> 1]

\* the switch on data.type: does the attempt fetch anything?
Scrapes(data) ==
    \/ data.type \in {"recent", "full"}
    \/ data.type = "series" /\ data.seriesUrl # NoUrl
    \/ data.type = "episode" /\ data.episodeUrl # NoUrl

\* processScrapingJob(data): [thrown, contexts it leaves open]
ProcessScrapingJob(rows, data, env) ==
    IF ~HasManager(rows, data)
    THEN [thrown |-> TRUE, opened |-> 0]
    ELSE LET init == Initialize(env)
         IN  IF init.thrown
             THEN init
             ELSE \* try { scrape } finally { manager.close() }
                  [thrown |-> Scrapes(data) /\ env = "scrapeFails",
                   opened |-> init.opened - 1]

-----------------------------------------------------------------------------
(* Queue actions *)

\* POST /api/scraping/start/:sourceId without pages (also the scheduler's tick)
StartScrapingCall(s, type) ==
    /\ jobs' = StartScrapingForSource(jobs, s, type)
    /\ UNCHANGED <<openContexts, lastRange>>
    /\ UNCHANGED <<schedVars, imageVars, proxyVars, extractVars>>

\* POST /api/scraping/start/:sourceId with type full and pages {start, end}
ScrapeMultiplePagesCall(s, a, b) ==
    /\ jobs' = ScrapeMultiplePages(jobs, s, a, b)
    /\ lastRange' = [startPage |-> a, endPage |-> b,
                     first |-> Len(jobs) + 1, last |-> Len(jobs')]
    /\ UNCHANGED openContexts
    /\ UNCHANGED <<schedVars, imageVars, proxyVars, extractVars>>

PostSeriesCall(s, url) ==
    /\ jobs' = PostSeries(jobs, s, url)
    /\ UNCHANGED <<openContexts, lastRange>>
    /\ UNCHANGED <<schedVars, imageVars, proxyVars, extractVars>>

PostEpisodeCall(s, url) ==
    /\ jobs' = PostEpisode(jobs, s, url)
    /\ UNCHANGED <<openContexts, lastRange>>
    /\ UNCHANGED <<schedVars, imageVars, proxyVars, extractVars>>

\* the worker fetches its next job
WorkerPull(j) ==
    /\ j \in JobIds(jobs)
    /\ WorkerCanPull(jobs)
    /\ IsNext(jobs, j)
    /\ jobs' = MoveToActive(jobs, j)
    /\ UNCHANGED <<openContexts, lastRange>>
    /\ UNCHANGED <<schedVars, imageVars, proxyVars, extractVars>>

\* one run of the processor for job j, to its return or throw
WorkerProcess(j, env) ==
    /\ j \in JobIds(jobs)
    /\ jobs[j].state = "active"
    /\ LET r == ProcessScrapingJob(sources, jobs[j].data, env)
       IN  /\ jobs' = IF r.thrown THEN MoveToFailed(jobs, j) ELSE MoveToCompleted(jobs, j)
           /\ openContexts' = openContexts + r.opened
    /\ UNCHANGED lastRange
    /\ UNCHANGED <<schedVars, imageVars, proxyVars, extractVars>>

BackoffElapsed(j) ==
    /\ j \in JobIds(jobs)
    /\ jobs[j].state = "delayed"
    /\ jobs' = Promote(jobs, j)
    /\ UNCHANGED <<openContexts, lastRange>>
    /\ UNCHANGED <<schedVars, imageVars, proxyVars, extractVars>>

-----------------------------------------------------------------------------
(* SchedulerService *)

Sched == [timers |-> timers, scheduledTasks |-> scheduledTasks,
          taskStates |-> taskStates, isSchedulerRunning |-> isSchedulerRunning]

\* task.start() and task.stop() of the cron task with index t
StartTask(ts, t) == [ts EXCEPT ![t].running = TRUE]
StopTask(ts, t) == [ts EXCEPT ![t].running = FALSE]

ScheduleSourceScraping(st, sourceId, intervalMinutes) ==
    LET t == Len(st.timers) + 1
        created == Append(st.timers,
                      [sourceId |-> sourceId, interval |-> intervalMinutes, running |-> FALSE])
    IN  [st EXCEPT
            !.timers = IF st.isSchedulerRunning THEN StartTask(created, t) ELSE created,
            !.scheduledTasks = Put(st.scheduledTasks, sourceId, t),
            !.taskStates = Put(st.taskStates, sourceId, st.isSchedulerRunning)]

StopScheduleForSource(st, sourceId) ==
    IF sourceId \in DOMAIN st.scheduledTasks
    THEN [st EXCEPT
            !.timers = StopTask(st.timers, st.scheduledTasks[sourceId]),
            !.scheduledTasks = Remove(st.scheduledTasks, sourceId),
            !.taskStates = Remove(st.taskStates, sourceId)]
    ELSE st

UpdateScheduleWithoutStop(st, sourceId, intervalMinutes) ==
    LET st2 == ScheduleSourceScraping(st, sourceId, intervalMinutes)
    IN  IF st2.isSchedulerRunning
        THEN [st2 EXCEPT
                !.timers = StartTask(st2.timers, st2.scheduledTasks[sourceId]),
                !.taskStates = Put(st2.taskStates, sourceId, TRUE)]
        ELSE st2

\* updateScheduleForSource starting the new task whether or not the scheduler runs
UpdateScheduleAlwaysStarting(st, sourceId, intervalMinutes) ==
    LET st2 == ScheduleSourceScraping(StopScheduleForSource(st, sourceId),
                                      sourceId, intervalMinutes)
    IN  [st2 EXCEPT
            !.timers = StartTask(st2.timers, st2.scheduledTasks[sourceId]),
            !.taskStates = Put(st2.taskStates, sourceId, TRUE)]

UpdateScheduleForSource(st, sourceId, intervalMinutes) ==
    LET st2 == ScheduleSourceScraping(StopScheduleForSource(st, sourceId),
                                      sourceId, intervalMinutes)
    IN  IF st2.isSchedulerRunning /\ sourceId \in DOMAIN st2.scheduledTasks
        THEN [st2 EXCEPT
                !.timers = StartTask(st2.timers, st2.scheduledTasks[sourceId]),
                !.taskStates = Put(st2.taskStates, sourceId, TRUE)]
        ELSE st2

IsRunning(st, sourceId) ==
    IF sourceId \in DOMAIN st.taskStates THEN st.taskStates[sourceId] ELSE FALSE

StartScheduleForSource(st, sourceId) ==
    IF sourceId \in DOMAIN st.scheduledTasks /\ ~IsRunning(st, sourceId)
    THEN [st EXCEPT
            !.timers = StartTask(st.timers, st.scheduledTasks[sourceId]),
            !.taskStates = Put(st.taskStates, sourceId, TRUE)]
    ELSE st

\* the boolean startScheduleForSource returns: true exactly when it started the task
StartScheduleForSourceReturns(st, sourceId) ==
    sourceId \in DOMAIN st.scheduledTasks /\ ~IsRunning(st, sourceId)

\* pauseScheduleForSource that forgets the task it stopped
PauseScheduleForSourceRemoving(st, sourceId) ==
    IF sourceId \in DOMAIN st.scheduledTasks /\ IsRunning(st, sourceId)
    THEN [st EXCEPT
            !.timers = StopTask(st.timers, st.scheduledTasks[sourceId]),
            !.scheduledTasks = Remove(st.scheduledTasks, sourceId),
            !.taskStates = Remove(st.taskStates, sourceId)]
    ELSE st

PauseScheduleForSource(st, sourceId) ==
    IF sourceId \in DOMAIN st.scheduledTasks /\ IsRunning(st, sourceId)
    THEN [st EXCEPT
            !.timers = StopTask(st.timers, st.scheduledTasks[sourceId]),
            !.taskStates = Put(st.taskStates, sourceId, FALSE)]
    ELSE st

\* the boolean pauseScheduleForSource returns: true exactly when it stopped the task
PauseScheduleForSourceReturns(st, sourceId) ==
    sourceId \in DOMAIN st.scheduledTasks /\ IsRunning(st, sourceId)

\* the for-loop of startAllSchedules over the rows the query returned
RECURSIVE ScheduleActive(_, _, _)
ScheduleActive(st, rows, order) ==
    IF order = <<>> THEN st
    ELSE LET s == Head(order)
             next == IF s \in DOMAIN rows /\ rows[s].isActive /\ rows[s].scanInterval # 0
                     THEN ScheduleSourceScraping(st, s, rows[s].scanInterval)
                     ELSE st
         IN  ScheduleActive(next, rows, Tail(order))

\* the second loop of startAllSchedules: start every registered task
StartRegistered(st) ==
    [st EXCEPT
        !.timers = [t \in DOMAIN st.timers |->
                      IF \E s \in DOMAIN st.scheduledTasks : st.scheduledTasks[s] = t
                      THEN [st.timers[t] EXCEPT !.running = TRUE]
                      ELSE st.timers[t]],
        !.taskStates = [s \in DOMAIN st.scheduledTasks |-> TRUE]]

\* startAllSchedules after its query has returned `rows`
StartAllSchedulesBody(st, rows) ==
    [StartRegistered(ScheduleActive(st, rows, SourceOrder)) EXCEPT
        !.isSchedulerRunning = TRUE]

StopAllSchedules(st) ==
    [st EXCEPT
        !.timers = [t \in DOMAIN st.timers |->
                      IF \E s \in DOMAIN st.scheduledTasks : st.scheduledTasks[s] = t
                      THEN [st.timers[t] EXCEPT !.running = FALSE]
                      ELSE st.timers[t]],
        !.scheduledTasks = EmptyMap,
        !.taskStates = EmptyMap,
        !.isSchedulerRunning = FALSE]

SetSched(st) ==
    /\ timers' = st.timers
    /\ scheduledTasks' = st.scheduledTasks
    /\ taskStates' = st.taskStates
    /\ isSchedulerRunning' = st.isSchedulerRunning

ActiveCount(rows) ==
    Cardinality({s \in DOMAIN rows : rows[s].isActive /\ rows[s].scanInterval # 0})

\* startAllSchedules up to its await: the running check, then the query is issued
StartAllSchedulesCall ==
    /\ ~isSchedulerRunning
    /\ startAllPending < MaxStartCalls
    /\ startAllPending' = startAllPending + 1
    /\ UNCHANGED <<sources, timers, scheduledTasks, taskStates, isSchedulerRunning>>
    /\ UNCHANGED <<queueVars, imageVars, proxyVars, extractVars>>

\* startAllSchedules from the query's answer to its return
StartAllSchedulesResume ==
    /\ startAllPending > 0
    /\ Len(timers) + ActiveCount(sources) <= MaxTimers
    /\ SetSched(StartAllSchedulesBody(Sched, sources))
    /\ startAllPending' = startAllPending - 1
    /\ UNCHANGED sources
    /\ UNCHANGED <<queueVars, imageVars, proxyVars, extractVars>>

StopAllSchedulesCall ==
    /\ SetSched(StopAllSchedules(Sched))
    /\ UNCHANGED <<sources, startAllPending>>
    /\ UNCHANGED <<queueVars, imageVars, proxyVars, extractVars>>

\* POST /api/scheduler/source/:sourceId/start
StartScheduleForSourceCall(s) ==
    /\ SetSched(StartScheduleForSource(Sched, s))
    /\ UNCHANGED <<sources, startAllPending>>
    /\ UNCHANGED <<queueVars, imageVars, proxyVars, extractVars>>

\* POST /api/scheduler/source/:sourceId/stop
PauseScheduleForSourceCall(s) ==
    /\ SetSched(PauseScheduleForSource(Sched, s))
    /\ UNCHANGED <<sources, startAllPending>>
    /\ UNCHANGED <<queueVars, imageVars, proxyVars, extractVars>>

\* PUT /api/scheduler/source/:sourceId/interval
UpdateScheduleForSourceCall(s, m) ==
    /\ Len(timers) < MaxTimers
    /\ SetSched(UpdateScheduleForSource(Sched, s, m))
    /\ UNCHANGED <<sources, startAllPending>>
    /\ UNCHANGED <<queueVars, imageVars, proxyVars, extractVars>>

\* DELETE /api/scheduler/source/:sourceId
StopScheduleForSourceCall(s) ==
    /\ SetSched(StopScheduleForSource(Sched, s))
    /\ UNCHANGED <<sources, startAllPending>>
    /\ UNCHANGED <<queueVars, imageVars, proxyVars, extractVars>>

\* POST /api/sources: insert the row (the id is the primary key), schedule if active
PostSource(s, active, m) ==
    /\ s \notin DOMAIN sources
    /\ Len(timers) < MaxTimers
    /\ sources' = Put(sources, s, SourceRow(active, m, "themesia"))
    /\ SetSched(IF active THEN ScheduleSourceScraping(Sched, s, m) ELSE Sched)
    /\ UNCHANGED startAllPending
    /\ UNCHANGED <<queueVars, imageVars, proxyVars, extractVars>>

\* PUT /api/sources/:id with body {isActive, scanInterval}
PutSource(s, active, m) ==
    /\ Len(timers) < MaxTimers
    /\ sources' = IF s \in DOMAIN sources
                  THEN [sources EXCEPT ![s].isActive = active, ![s].scanInterval = m]
                  ELSE sources
    /\ SetSched(IF active /\ m # 0 THEN UpdateScheduleForSource(Sched, s, m)
                ELSE IF active = FALSE THEN StopScheduleForSource(Sched, s)
                ELSE Sched)
    /\ UNCHANGED startAllPending
    /\ UNCHANGED <<queueVars, imageVars, proxyVars, extractVars>>

\* DELETE /api/sources/:id
DeleteSource(s) ==
    /\ s \in DOMAIN sources
    /\ sources' = Remove(sources, s)
    /\ SetSched(StopScheduleForSource(Sched, s))
    /\ UNCHANGED startAllPending
    /\ UNCHANGED <<queueVars, imageVars, proxyVars, extractVars>>

\* one tick of a started cron task: the callback enqueues a recent job
Tick(t) ==
    /\ t \in DOMAIN timers
    /\ timers[t].running
    /\ Len(jobs) < MaxTickJobs
    /\ jobs' = StartScrapingForSource(jobs, timers[t].sourceId, "recent")
    /\ UNCHANGED <<openContexts, lastRange>>
    /\ UNCHANGED <<schedVars, imageVars, proxyVars, extractVars>>

\* the cron callback of the task with index t starts and awaits
\* startScrapingForSource, that is the queue's add
TickFires(t) ==
    /\ t \in DOMAIN timers
    /\ timers[t].running
    /\ Len(callbacks) < MaxTicks
    /\ callbacks' = Append(callbacks,
                        [timer |-> t, sourceId |-> timers[t].sourceId, at |-> "adding", job |-> 0])
    /\ UNCHANGED <<proxyConfig, lastAttempt, lastRecord, db, downloads, lastScrape>>
    /\ UNCHANGED <<schedVars, queueVars, imageVars, proxyVars>>

\* the add settles and the callback returns: the job is in the queue, or the
\* rejection is caught and logged
AddSettles(c, added) ==
    /\ c \in DOMAIN callbacks
    /\ callbacks[c].at = "adding"
    /\ jobs' = IF added THEN StartScrapingForSource(jobs, callbacks[c].sourceId, "recent") ELSE jobs
    /\ callbacks' = [callbacks EXCEPT
                        ![c].at = IF added THEN "returned" ELSE "caught",
                        ![c].job = IF added THEN Len(jobs') ELSE 0]
    /\ UNCHANGED <<openContexts, lastRange>>
    /\ UNCHANGED <<proxyConfig, lastAttempt, lastRecord, db, downloads, lastScrape>>
    /\ UNCHANGED <<schedVars, imageVars, proxyVars>>

-----------------------------------------------------------------------------
(* ImageStorageService *)

MaxFileSizeMB == 10

Urls == {"u1", "u2"}

\* String(n).padStart(width, fill)
RECURSIVE PadStart(_, _, _)
PadStart(str, width, fill) ==
    IF Len(str) >= width THEN str ELSE PadStart(fill \o str, width, fill)

\* relativePath of storeSeriesCover and of storeEpisodeImages (position is i + 1)
CoverPath(seriesId) == <<"series", seriesId, "cover.webp">>

\* an episode path that leaves the episode directory out
EpisodeImagePathFlat(seriesId, episodeId, position) ==
    <<"series", seriesId, "episodes", PadStart(ToString(position), 3, "0") \o ".webp">>

EpisodeImagePath(seriesId, episodeId, position) ==
    <<"series", seriesId, "episodes", episodeId,
      PadStart(ToString(position), 3, "0") \o ".webp">>

\* the template literal of relativePath: the components joined with '/'
RECURSIVE RelativePath(_)
RelativePath(p) ==
    IF Len(p) = 1 THEN p[1] ELSE p[1] \o "/" \o RelativePath(Tail(p))

\* what the remote server, sharp and the disk do to one acquisition:
\* the HTTP status, the payload's bytes, the size sharp encodes it to (0: sharp
\* throws) and whether writeFile succeeds
ImageEnv(status, bytes, sharp, writeOk) ==
    [status |-> status, bytes |-> bytes, sharp |-> sharp, writeOk |-> writeOk]

ImageEnvs ==
    { ImageEnv("http404", 0, 0, FALSE),
      ImageEnv("ok", 10 * 1024 * 1024 + 1, 900, TRUE),
      ImageEnv("ok", 10 * 1024 * 1024, 900, TRUE),
      ImageEnv("ok", 2 * 1024 * 1024, 0, TRUE),
      ImageEnv("ok", 2 * 1024 * 1024, 700, FALSE),
      ImageEnv("ok", 2 * 1024 * 1024, 700, TRUE) }

ImageResult(cdnUrl, localPath, fileSize, processed, error) ==
    [cdnUrl |-> cdnUrl, localPath |-> localPath, fileSize |-> fileSize,
     processed |-> processed, processingError |-> error]

\* originalSizeMB > this.maxFileSizeMB, with originalSizeMB = bytes / (1024 * 1024)
TooLargeWrongUnit(bytes) == bytes \div (1024 * 1024) > MaxFileSizeMB * 1024
TooLarge(bytes) == bytes > MaxFileSizeMB * 1024 * 1024

\* one run of downloadAndProcessImage: the store after it, what it did, and its
\* result or the error it throws
Acquired(fs, thrown, fetched, transformed, wrote, result) ==
    [files |-> fs, thrown |-> thrown, fetched |-> fetched,
     transformed |-> transformed, wrote |-> wrote, result |-> result]

\* downloadAndProcessImage after its existence check: fetch, size check,
\* transformation, write
Download(fs, imageUrl, relativePath, env) ==
    IF env.status # "ok"
    THEN Acquired(fs, TRUE, TRUE, FALSE, FALSE,
                  ImageResult(imageUrl, relativePath, 0, FALSE, "HTTP"))
    ELSE IF TooLarge(env.bytes)
    THEN Acquired(fs, TRUE, TRUE, FALSE, FALSE,
                  ImageResult(imageUrl, relativePath, 0, FALSE, "Image too large"))
    ELSE IF env.sharp = 0
    THEN Acquired(fs, TRUE, TRUE, TRUE, FALSE,
                  ImageResult(imageUrl, relativePath, 0, FALSE, "sharp"))
    ELSE IF ~env.writeOk
    THEN Acquired(fs, TRUE, TRUE, TRUE, FALSE,
                  ImageResult(imageUrl, relativePath, 0, FALSE, "write"))
    ELSE Acquired(Put(fs, relativePath, env.sharp), FALSE, TRUE, TRUE, TRUE,
                  ImageResult(imageUrl, relativePath, env.sharp, TRUE, ""))

DownloadAlways(fs, imageUrl, relativePath, env) ==
    Download(fs, imageUrl, relativePath, env)

DownloadAndProcessImage(fs, imageUrl, relativePath, env) ==
    IF relativePath \in DOMAIN fs
    THEN Acquired(fs, FALSE, FALSE, FALSE, FALSE,
                  ImageResult(imageUrl, relativePath, fs[relativePath], TRUE, ""))
    ELSE Download(fs, imageUrl, relativePath, env)

Count(f, k) == IF k \in DOMAIN f THEN f[k] ELSE 0

\* what one pass of the loop of storeEpisodeImages did
Pass(fs, path, r) ==
    [existed |-> path \in DOMAIN fs, sizeBefore |-> Count(fs, path),
     fetched |-> r.fetched, transformed |-> r.transformed, wrote |-> r.wrote]

\* storeEpisodeImages stopping at the first image that fails
RECURSIVE StoreFromUntilFailure(_, _, _, _, _, _)
StoreFromUntilFailure(acc, imageUrls, seriesId, episodeId, envs, i) ==
    IF i > Len(imageUrls) THEN acc
    ELSE LET path == EpisodeImagePath(seriesId, episodeId, i)
             r == DownloadAndProcessImage(acc.files, imageUrls[i], path, envs[i])
             next == [files |-> r.files,
                      results |-> Append(acc.results, r.result),
                      passes |-> Append(acc.passes, Pass(acc.files, path, r))]
         IN  IF r.thrown THEN next
             ELSE StoreFromUntilFailure(next, imageUrls, seriesId, episodeId, envs, i + 1)

StoreEpisodeImagesUntilFailure(fs, imageUrls, seriesId, episodeId, envs) ==
    StoreFromUntilFailure([files |-> fs, results |-> <<>>, passes |-> <<>>],
                          imageUrls, seriesId, episodeId, envs, 1)

\* the loop of storeEpisodeImages from position i on; a thrown error becomes a
\* failed result of that image
RECURSIVE StoreFrom(_, _, _, _, _, _)
StoreFrom(acc, imageUrls, seriesId, episodeId, envs, i) ==
    IF i > Len(imageUrls) THEN acc
    ELSE LET path == EpisodeImagePath(seriesId, episodeId, i)
             r == DownloadAndProcessImage(acc.files, imageUrls[i], path, envs[i])
         IN  StoreFrom([files |-> r.files,
                        results |-> Append(acc.results, r.result),
                        passes |-> Append(acc.passes, Pass(acc.files, path, r))],
                       imageUrls, seriesId, episodeId, envs, i + 1)

StoreEpisodeImages(fs, imageUrls, seriesId, episodeId, envs) ==
    StoreFrom([files |-> fs, results |-> <<>>, passes |-> <<>>],
              imageUrls, seriesId, episodeId, envs, 1)

\* storeSeriesCover: the error of downloadAndProcessImage propagates
StoreSeriesCover(fs, imageUrl, seriesId, env) ==
    LET r == DownloadAndProcessImage(fs, imageUrl, CoverPath(seriesId), env)
    IN  [files |-> r.files,
         results |-> IF r.thrown THEN <<>> ELSE <<r.result>>,
         passes |-> <<Pass(fs, CoverPath(seriesId), r)>>]

RECURSIVE CountFetches(_, _, _, _)
CountFetches(f, paths, passes, i) ==
    IF i > Len(passes) THEN f
    ELSE CountFetches(IF passes[i].fetched
                      THEN Put(f, paths[i], Count(f, paths[i]) + 1) ELSE f,
                      paths, passes, i + 1)

Acquire(op, urls, paths, envs, r) ==
    /\ files' = r.files
    /\ fetches' = CountFetches(fetches, paths, r.passes, 1)
    /\ \A p \in DOMAIN fetches' : fetches'[p] <= MaxFetches
    /\ lastCall' = [op |-> op, urls |-> urls, paths |-> paths, envs |-> envs,
                    passes |-> r.passes, results |-> r.results]
    /\ UNCHANGED <<schedVars, queueVars, proxyVars, extractVars>>

StoreEpisodeImagesCall(imageUrls, seriesId, episodeId, envs) ==
    Acquire("episode", imageUrls,
            [i \in 1..Len(imageUrls) |-> EpisodeImagePath(seriesId, episodeId, i)], envs,
            StoreEpisodeImages(files, imageUrls, seriesId, episodeId, envs))

StoreSeriesCoverCall(imageUrl, seriesId, env) ==
    Acquire("cover", <<imageUrl>>, <<CoverPath(seriesId)>>, <<env>>,
            StoreSeriesCover(files, imageUrl, seriesId, env))

-----------------------------------------------------------------------------
(* ImageProcessingService and BaseManager: from an acquisition to the record *)

\* a path that is not there (localPath undefined)
NoPath == <<>>

\* ImageProcessingService.processSeriesCover: null (here no result) instead of
\* any error of storeSeriesCover, whose mkdir comes before the download
ServiceProcessSeriesCover(fs, imageUrl, seriesId, env, dirOk) ==
    IF ~dirOk
    THEN [files |-> fs, passes |-> <<>>, thrown |-> FALSE, result |-> <<>>]
    ELSE LET r == StoreSeriesCover(fs, imageUrl, seriesId, env)
         IN  [files |-> r.files, passes |-> r.passes, thrown |-> FALSE,
              result |-> r.results]

\* ImageProcessingService.processEpisodeImages: [] instead of an error of
\* storeEpisodeImages (its mkdir; the images' errors are caught inside)
ServiceProcessEpisodeImages(fs, imageUrls, seriesId, episodeId, envs, dirOk) ==
    IF ~dirOk
    THEN [files |-> fs, passes |-> <<>>, thrown |-> FALSE, results |-> <<>>]
    ELSE LET r == StoreEpisodeImages(fs, imageUrls, seriesId, episodeId, envs)
         IN  [files |-> r.files, passes |-> r.passes, thrown |-> FALSE,
              results |-> r.results]

\* BaseManager.processSeriesCover
ProcessSeriesCover(fs, coverUrl, seriesId, env, dirOk) ==
    IF coverUrl = ""
    THEN [files |-> fs, passes |-> <<>>, thrown |-> FALSE,
          value |-> [cdnUrl |-> "", localPath |-> NoPath, fileSize |-> 0]]
    ELSE LET s == ServiceProcessSeriesCover(fs, coverUrl, seriesId, env, dirOk)
         IN  [files |-> s.files, passes |-> s.passes, thrown |-> FALSE,
              value |-> IF ~s.thrown /\ s.result # <<>> /\ s.result[1].processed
                        THEN [cdnUrl |-> coverUrl, localPath |-> s.result[1].localPath,
                              fileSize |-> s.result[1].fileSize]
                        ELSE [cdnUrl |-> coverUrl, localPath |-> NoPath, fileSize |-> 0]]

\* results.forEach: the stored ones, in order
RECURSIVE LocalPaths(_)
LocalPaths(results) ==
    IF results = <<>> THEN <<>>
    ELSE LET r == Head(results)
         IN  (IF r.processed /\ r.localPath # NoPath THEN <<r.localPath>> ELSE <<>>)
             \o LocalPaths(Tail(results))

FileSizes(results) ==
    LET stored == {i \in 1..Len(results) :
                      results[i].processed /\ results[i].localPath # NoPath}
    IN  [p \in {results[i].localPath : i \in stored} |->
            LET last == CHOOSE i \in stored :
                           /\ results[i].localPath = p
                           /\ \A j \in stored : results[j].localPath = p => j <= i
            IN  results[last].fileSize]

RECURSIVE StoredUrls(_)
StoredUrls(results) ==
    IF results = <<>> THEN <<>>
    ELSE (IF Head(results).processed THEN <<Head(results).cdnUrl>> ELSE <<>>)
         \o StoredUrls(Tail(results))

ProcessEpisodeImagesDroppingFailed(fs, imageUrls, seriesId, episodeId, envs, dirOk) ==
    LET s == ServiceProcessEpisodeImages(fs, imageUrls, seriesId, episodeId, envs, dirOk)
    IN  [files |-> s.files, passes |-> s.passes, thrown |-> FALSE,
         value |-> [cdnUrls |-> StoredUrls(s.results),
                    localPaths |-> LocalPaths(s.results),
                    fileSizes |-> FileSizes(s.results)]]

\* BaseManager.processEpisodeImages
ProcessEpisodeImages(fs, imageUrls, seriesId, episodeId, envs, dirOk) ==
    IF imageUrls = <<>>
    THEN [files |-> fs, passes |-> <<>>, thrown |-> FALSE,
          value |-> [cdnUrls |-> <<>>, localPaths |-> <<>>, fileSizes |-> EmptyMap]]
    ELSE LET s == ServiceProcessEpisodeImages(fs, imageUrls, seriesId, episodeId, envs, dirOk)
         IN  [files |-> s.files, passes |-> s.passes, thrown |-> FALSE,
              value |-> IF s.thrown
                        THEN [cdnUrls |-> imageUrls, localPaths |-> <<>>,
                              fileSizes |-> EmptyMap]
                        ELSE [cdnUrls |-> imageUrls,
                              localPaths |-> LocalPaths(s.results),
                              fileSizes |-> FileSizes(s.results)]]

\* the fields getSeriesData gives the series and its episodes from these values
SeriesRecord(coverResult) ==
    [cover |-> coverResult.cdnUrl, localCoverPath |-> coverResult.localPath,
     coverFileSize |-> coverResult.fileSize]

EpisodeRecord(imageResult) ==
    [images |-> imageResult.cdnUrls, localImagesPath |-> imageResult.localPaths,
     imagesFileSizes |-> imageResult.fileSizes]

Extract(op, urls, paths, envs, dirOk, r, record) ==
    /\ files' = r.files
    /\ fetches' = CountFetches(fetches, paths, r.passes, 1)
    /\ \A p \in DOMAIN fetches' : fetches'[p] <= MaxFetches
    /\ lastRecord' = [op |-> op, urls |-> urls, paths |-> paths, envs |-> envs,
                      dirOk |-> dirOk, filesBefore |-> files, thrown |-> r.thrown,
                      record |-> record]
    /\ UNCHANGED <<lastCall, proxyConfig, lastAttempt, db, downloads, lastScrape, callbacks>>
    /\ UNCHANGED <<schedVars, queueVars, proxyVars>>

\* getSeriesData: the cover of a series
ExtractCover(coverUrl, seriesId, env, dirOk) ==
    LET r == ProcessSeriesCover(files, coverUrl, seriesId, env, dirOk)
    IN  Extract("cover", <<coverUrl>>, <<CoverPath(seriesId)>>, <<env>>, dirOk, r,
                SeriesRecord(r.value))

\* getSeriesData: the images of one episode
ExtractEpisode(imageUrls, seriesId, episodeId, envs, dirOk) ==
    LET r == ProcessEpisodeImages(files, imageUrls, seriesId, episodeId, envs, dirOk)
    IN  Extract("episode", imageUrls,
                [i \in 1..Len(imageUrls) |-> EpisodeImagePath(seriesId, episodeId, i)],
                envs, dirOk, r, EpisodeRecord(r.value))

-----------------------------------------------------------------------------
(* Strings of the scraped pages, as sequences of characters *)

DigitChars == {"0", "1", "2", "3", "4", "5", "6", "7", "8", "9"}

DigitValue(c) ==
    CASE c = "0" -> 0 [] c = "1" -> 1 [] c = "2" -> 2 [] c = "3" -> 3 [] c = "4" -> 4
      [] c = "5" -> 5 [] c = "6" -> 6 [] c = "7" -> 7 [] c = "8" -> 8 [] c = "9" -> 9

\* String.prototype.trim, with the blank as the only white space of the alphabet
RECURSIVE TrimStart(_)
TrimStart(s) == IF s # <<>> /\ Head(s) = " " THEN TrimStart(Tail(s)) ELSE s

RECURSIVE TrimEnd(_)
TrimEnd(s) ==
    IF s # <<>> /\ s[Len(s)] = " " THEN TrimEnd(SubSeq(s, 1, Len(s) - 1)) ELSE s

Trim(s) == TrimEnd(TrimStart(s))

\* the number of leading characters of s that are decimal digits
RECURSIVE LeadingDigits(_)
LeadingDigits(s) ==
    IF s # <<>> /\ Head(s) \in DigitChars THEN 1 + LeadingDigits(Tail(s)) ELSE 0

RECURSIVE DigitsValue(_)
DigitsValue(s) ==
    IF s = <<>> THEN 0
    ELSE 10 * DigitsValue(SubSeq(s, 1, Len(s) - 1)) + DigitValue(s[Len(s)])

\* a JavaScript number: NaN, or a value kept in thousandths
NaN == [nan |-> TRUE, milli |-> 0]
Num(milli) == [nan |-> FALSE, milli |-> milli]
MinusOne == Num(-1000)

\* number >= 0, false for NaN
GreaterEqualZero(n) == ~n.nan /\ n.milli >= 0
IsFractional(n) == ~n.nan /\ n.milli % 1000 # 0

\* the first three fraction digits, in thousandths
FractionMilli(s) ==
    LET d(i) == IF i <= Len(s) THEN DigitValue(s[i]) ELSE 0
    IN  100 * d(1) + 10 * d(2) + d(3)

\* parseFloat: leading white space, a sign, digits, a point and digits; NaN
\* when no digit was read
ParseFloat(str) ==
    LET t == TrimStart(str)
        signed == t # <<>> /\ Head(t) \in {"-", "+"}
        negative == t # <<>> /\ Head(t) = "-"
        u == IF signed THEN Tail(t) ELSE t
        n == LeadingDigits(u)
        rest == SubSeq(u, n + 1, Len(u))
        m == IF rest # <<>> /\ Head(rest) = "." THEN LeadingDigits(Tail(rest)) ELSE 0
        value == 1000 * DigitsValue(SubSeq(u, 1, n)) + FractionMilli(SubSeq(rest, 2, m + 1))
    IN  IF n = 0 /\ m = 0 THEN NaN
        ELSE Num(IF negative THEN 0 - value ELSE value)

\* text.replace(/[^0-9.,]/g, ' ')
ReplaceNonNumeric(text) ==
    [i \in 1..Len(text) |-> IF text[i] \in DigitChars \cup {".", ","} THEN text[i] ELSE " "]

\* s.replace(/^[.,]*/, '')
RECURSIVE StripLeadingPoints(_)
StripLeadingPoints(s) ==
    IF s # <<>> /\ Head(s) \in {".", ","} THEN StripLeadingPoints(Tail(s)) ELSE s

\* extractEpisodeNumber that keeps a sign written in the text
ExtractEpisodeNumberSigned(text) ==
    LET number == ParseFloat(text)
    IN  IF number.nan THEN MinusOne ELSE number

\* BaseManager.extractEpisodeNumber
ExtractEpisodeNumber(text) ==
    LET match == StripLeadingPoints(Trim(ReplaceNonNumeric(text)))
        number == ParseFloat(match)
    IN  IF number.nan THEN MinusOne ELSE number

\* the index of the first occurrence of sep in s at or after i, 0 if none
RECURSIVE IndexOf(_, _, _)
IndexOf(s, sep, i) ==
    IF i + Len(sep) - 1 > Len(s) THEN 0
    ELSE IF SubSeq(s, i, i + Len(sep) - 1) = sep THEN i
    ELSE IndexOf(s, sep, i + 1)

\* String.prototype.split with a non-empty separator
RECURSIVE Split(_, _)
Split(s, sep) ==
    LET i == IndexOf(s, sep, 1)
    IN  IF i = 0 THEN <<s>>
        ELSE <<SubSeq(s, 1, i - 1)>> \o Split(SubSeq(s, i + Len(sep), Len(s)), sep)

\* Array.prototype.join
RECURSIVE Join(_, _)
Join(parts, sep) ==
    IF parts = <<>> THEN <<>>
    ELSE IF Len(parts) = 1 THEN parts[1]
    ELSE parts[1] \o sep \o Join(Tail(parts), sep)

\* Array.prototype.slice(-2)
LastTwo(parts) == SubSeq(parts, IF Len(parts) > 2 THEN Len(parts) - 1 ELSE 1, Len(parts))

-----------------------------------------------------------------------------
(* The managers: ids, episode ordinals and image lists of a scraped page *)

ManagerThemes == {"themesia", "madara", "uzay"}

\* source.domain, and the '/manga/' of UzayManager's id
Domain == <<"d">>
MangaDir == <<"/", "m", "a", "n", "g", "a", "/">>

\* Math.random().toString(36).substr(2, 9): a fresh string on every call
RandomIds == {<<"r", "1">>, <<"r", "2">>}

\* generateId: the last segment of the URL, a random string when it is empty
GenerateId(url, random) ==
    LET parts == Split(url, <<"/">>)
        last == parts[Len(parts)]
    IN  IF last # <<>> THEN last ELSE random

\* generateEpisodeId: the last two segments joined with '-'
GenerateEpisodeId(url, random) ==
    LET joined == Join(LastTwo(Split(url, <<"/">>)), <<"-">>)
    IN  IF joined # <<>> THEN joined ELSE random

\* UzayManager.remapHref
RemapHref(href) ==
    IF href = <<>> THEN <<>>
    ELSE IF Head(href) = "/" THEN Domain \o href
    ELSE href

\* the series page as the selectors of getSeriesData see it: whether the
\* navigation succeeds, the body class with 'postid-', the data-id of
\* .bookmark (both empty when absent) and the episode elements in page order
SeriesPage(fetch, postidClass, dataId, episodes) ==
    [fetch |-> fetch, postidClass |-> postidClass, dataId |-> dataId, episodes |-> episodes]

\* an episode element: its text, its data-num, its href and its reader page
EpisodeElement(name, dataNum, href, page) ==
    [name |-> name, dataNum |-> dataNum, href |-> href, page |-> page]

\* the id of getSeriesData, by theme
SeriesId(theme, url, page, random) ==
    LET generated == GenerateId(url, random)
        classParts == Split(page.postidClass, <<"-">>)
        postid == IF Len(classParts) >= 2 THEN classParts[2] ELSE <<>>
        afterManga == Split(url, MangaDir)
        slug == IF Len(afterManga) >= 2 THEN Split(afterManga[2], <<"/">>)[1] ELSE <<>>
    IN  CASE theme = "madara" ->
                IF postid # <<>> THEN postid
                ELSE IF page.dataId # <<>> THEN page.dataId ELSE generated
          [] theme = "themesia" ->
                IF page.dataId # <<>> THEN page.dataId ELSE generated
          [] OTHER ->
                IF slug # <<>> THEN slug ELSE generated

\* the ordinal getSeriesData reads from an episode element, by theme
EpisodeNumber(theme, element) ==
    IF theme = "themesia"
    THEN ParseFloat(IF element.dataNum # <<>> THEN element.dataNum ELSE <<"-", "1">>)
    ELSE ExtractEpisodeNumber(element.name)

EpisodeUrl(theme, element) ==
    IF theme = "uzay" THEN RemapHref(element.href) ELSE element.href

\* the if that admits an episode element to the record
KeepsEpisode(theme, element) ==
    GreaterEqualZero(EpisodeNumber(theme, element)) /\ EpisodeUrl(theme, element) # <<>>

\* the reader page of an episode: the navigation fails, the script marker is
\* absent, the marker has no list behind it, the list is not JSON, or the list
\* holds one or two images
EpisodePages == {"fetchFails", "noMarker", "noData", "malformed", "one", "images"}

PageImages(page) ==
    CASE page = "images" -> <<"u1", "u2">>
      [] page = "one" -> <<"u1">>
      [] OTHER -> <<>>

\* getEpisodeImages that lets the JSON.parse error out
GetEpisodeImagesUncaught(theme, page) ==
    IF page = "fetchFails" \/ page = "malformed"
    THEN [thrown |-> TRUE, images |-> <<>>]
    ELSE [thrown |-> FALSE, images |-> PageImages(page)]

\* getEpisodeImages: Themesia fetches outside its try, Madara and Uzay catch
\* everything; Uzay wants at least two entries
GetEpisodeImages(theme, page) ==
    CASE theme = "themesia" ->
            IF page = "fetchFails" THEN [thrown |-> TRUE, images |-> <<>>]
            ELSE [thrown |-> FALSE, images |-> PageImages(page)]
      [] theme = "madara" ->
            [thrown |-> FALSE, images |-> PageImages(page)]
      [] OTHER ->
            [thrown |-> FALSE, images |-> IF page = "images" THEN PageImages(page) ELSE <<>>]

EpisodeOf(theme, seriesId, element, images, random) ==
    [id |-> GenerateEpisodeId(EpisodeUrl(theme, element), random),
     seriesId |-> seriesId,
     number |-> EpisodeNumber(theme, element),
     url |-> EpisodeUrl(theme, element),
     images |-> images]

\* the episode loop of getSeriesData: the episodes pushed so far, or the throw
\* of getEpisodeImages that ends it
RECURSIVE CollectEpisodes(_, _, _, _, _)
CollectEpisodes(theme, seriesId, elements, random, pushed) ==
    IF elements = <<>> THEN [thrown |-> FALSE, episodes |-> pushed]
    ELSE LET element == Head(elements)
             r == GetEpisodeImages(theme, element.page)
         IN  IF ~KeepsEpisode(theme, element)
             THEN CollectEpisodes(theme, seriesId, Tail(elements), random, pushed)
             ELSE IF r.thrown THEN [thrown |-> TRUE, episodes |-> pushed]
             ELSE CollectEpisodes(theme, seriesId, Tail(elements), random,
                      Append(pushed, EpisodeOf(theme, seriesId, element, r.images, random)))

Reverse(s) == [i \in 1..Len(s) |-> s[Len(s) + 1 - i]]

\* getSeriesData: the series record, or the throw of a navigation
GetSeriesData(theme, url, page, random) ==
    IF page.fetch # "ok" THEN [thrown |-> TRUE]
    ELSE LET id == SeriesId(theme, url, page, random.series)
             r == CollectEpisodes(theme, id, page.episodes, random.episode, <<>>)
         IN  IF r.thrown THEN [thrown |-> TRUE]
             ELSE [thrown |-> FALSE,
                   series |-> [id |-> id, url |-> url, episodes |-> Reverse(r.episodes)]]

\* the index page: whether the navigation succeeds, and the cards in page
\* order, each with its href (empty when absent) and the series page behind it
IndexPage(fetch, cards) == [fetch |-> fetch, cards |-> cards]

\* the card loop of getFullSeries that lets the first throw end it
RECURSIVE CollectSeriesUntilThrow(_, _, _, _)
CollectSeriesUntilThrow(theme, cards, random, pushed) ==
    IF cards = <<>> THEN [thrown |-> FALSE, series |-> pushed]
    ELSE LET href == IF theme = "uzay" THEN RemapHref(Head(cards).href) ELSE Head(cards).href
             r == GetSeriesData(theme, href, Head(cards).page, random)
         IN  IF href = <<>> THEN CollectSeriesUntilThrow(theme, Tail(cards), random, pushed)
             ELSE IF r.thrown THEN [thrown |-> TRUE, series |-> pushed]
             ELSE CollectSeriesUntilThrow(theme, Tail(cards), random, Append(pushed, r.series))

\* the card loop of getFullSeries: a series whose getSeriesData throws is
\* logged and left out
RECURSIVE CollectSeries(_, _, _, _)
CollectSeries(theme, cards, random, pushed) ==
    IF cards = <<>> THEN [thrown |-> FALSE, series |-> pushed]
    ELSE LET href == IF theme = "uzay" THEN RemapHref(Head(cards).href) ELSE Head(cards).href
             r == GetSeriesData(theme, href, Head(cards).page, random)
         IN  CollectSeries(theme, Tail(cards), random,
                 IF href = <<>> \/ r.thrown THEN pushed ELSE Append(pushed, r.series))

\* getFullSeries, which getRecentSeries calls with another order parameter
GetFullSeries(theme, index, random) ==
    IF index.fetch # "ok" THEN [thrown |-> TRUE, series |-> <<>>]
    ELSE CollectSeries(theme, index.cards, random, <<>>)

-----------------------------------------------------------------------------
(* The series and episodes tables *)

\* an insert into episodes fails when the integer column is given a number
\* with a fraction
InsertEpisodeFails(episode) == IsFractional(episode.number)

\* one pass of the loop of saveEpisodesToDatabase, inserting without the select
SaveEpisodeAlwaysInserting(d, episode) ==
    IF InsertEpisodeFails(episode) THEN d
    ELSE [d EXCEPT
            !.episodes = Put(d.episodes, episode.id,
                             [seriesId |-> episode.seriesId, number |-> episode.number,
                              url |-> episode.url, images |-> episode.images]),
            !.inserted = d.inserted + 1]

\* one pass of the loop of saveEpisodesToDatabase: insert the new row, update
\* the images of the existing one, catch and log a failing statement
SaveEpisode(d, episode) ==
    IF episode.id \in DOMAIN d.episodes
    THEN [d EXCEPT !.episodes[episode.id].images = episode.images]
    ELSE IF InsertEpisodeFails(episode) THEN d
    ELSE [d EXCEPT
            !.episodes = Put(d.episodes, episode.id,
                             [seriesId |-> episode.seriesId, number |-> episode.number,
                              url |-> episode.url, images |-> episode.images]),
            !.inserted = d.inserted + 1]

RECURSIVE SaveEpisodesToDatabase(_, _)
SaveEpisodesToDatabase(d, episodesList) ==
    IF episodesList = <<>> THEN d
    ELSE SaveEpisodesToDatabase(SaveEpisode(d, Head(episodesList)), Tail(episodesList))

\* one pass of the loop of saveSeriesToDatabase: insert the series row when no
\* row has its id (an update leaves id and url alone), then save its episodes
SaveSeries(d, seriesData) ==
    SaveEpisodesToDatabase(
        IF seriesData.id \in DOMAIN d.series THEN d
        ELSE [d EXCEPT !.series = Put(d.series, seriesData.id, [url |-> seriesData.url]),
                       !.inserted = d.inserted + 1],
        seriesData.episodes)

RECURSIVE SaveSeriesToDatabase(_, _)
SaveSeriesToDatabase(d, seriesList) ==
    IF seriesList = <<>> THEN d
    ELSE SaveSeriesToDatabase(SaveSeries(d, Head(seriesList)), Tail(seriesList))

-----------------------------------------------------------------------------
(* ProxyService *)

MaxProxies == 3
MaxProxyCalls == 3

\* an endpoint stands for its key `${host}:${port}`; the default one is pushed first
DefaultProxy == "p0"
NoProxy == "none"
\* endpoints a PROXY_LIST line can name, and one that is in no list
ListedProxies == {"p0", "p1", "p2"}
Endpoints == ListedProxies \cup {"px"}

\* loadProxies: the default endpoint, then the lines of PROXY_LIST (if set)
LoadProxies(additional) == <<DefaultProxy>> \o additional
ProxyLists ==
    {LoadProxies(a) : a \in UNION {[1..k -> ListedProxies] : k \in 0..(MaxProxies - 1)}}

Svc == [proxies |-> proxies, currentProxyIndex |-> currentProxyIndex,
        failedProxies |-> failedProxies, proxyStats |-> proxyStats]

\* this.proxyStats.get(proxyKey) || { requests: 0, failures: 0 }
StatsOf(stats, key) ==
    IF key \in DOMAIN stats THEN stats[key] ELSE [requests |-> 0, failures |-> 0]

\* this.proxies[this.currentProxyIndex]
CurrentProxy(p) == p.proxies[p.currentProxyIndex + 1]

\* every operation: the service after it and what it returns
GetCurrentProxy(p) ==
    IF Len(p.proxies) = 0
    THEN [svc |-> p, result |-> NoProxy]
    ELSE LET key == CurrentProxy(p)
             st == StatsOf(p.proxyStats, key)
         IN  [svc |-> [p EXCEPT !.proxyStats =
                            Put(p.proxyStats, key, [st EXCEPT !.requests = st.requests + 1])],
              result |-> key]

RotateProxySaturating(p) ==
    IF Len(p.proxies) <= 1
    THEN GetCurrentProxy(p)
    ELSE LET i == IF p.currentProxyIndex + 1 < Len(p.proxies)
                  THEN p.currentProxyIndex + 1 ELSE p.currentProxyIndex
         IN  [svc |-> [p EXCEPT !.currentProxyIndex = i], result |-> p.proxies[i + 1]]

RotateProxyNoWrap(p) ==
    IF Len(p.proxies) <= 1
    THEN GetCurrentProxy(p)
    ELSE LET i == p.currentProxyIndex + 1
         IN  [svc |-> [p EXCEPT !.currentProxyIndex = i],
              result |-> IF i < Len(p.proxies) THEN p.proxies[i + 1] ELSE NoProxy]

RotateProxy(p) ==
    IF Len(p.proxies) <= 1
    THEN GetCurrentProxy(p)
    ELSE LET i == (p.currentProxyIndex + 1) % Len(p.proxies)
         IN  [svc |-> [p EXCEPT !.currentProxyIndex = i], result |-> p.proxies[i + 1]]

\* markProxyFailed up to its last statement
RecordFailure(p, proxy) ==
    LET st == StatsOf(p.proxyStats, proxy)
    IN  [p EXCEPT !.failedProxies = p.failedProxies \cup {proxy},
                  !.proxyStats = Put(p.proxyStats, proxy,
                                     [st EXCEPT !.failures = st.failures + 1])]

MarkProxyFailedRemoving(p, proxy) ==
    LET q == RecordFailure(p, proxy)
        kept == SelectSeq(q.proxies, LAMBDA x : x # proxy)
    IN  [svc |-> [q EXCEPT !.proxies = IF kept = <<>> THEN q.proxies ELSE kept,
                           !.currentProxyIndex = 0],
         result |-> NoProxy]

MarkProxyFailedNoRotate(p, proxy) ==
    [svc |-> RecordFailure(p, proxy), result |-> NoProxy]

MarkProxyFailed(p, proxy) ==
    [svc |-> RotateProxy(RecordFailure(p, proxy)).svc, result |-> NoProxy]

\* getProxyStats: one row per key of proxyStats, the service untouched
GetProxyStats(p) ==
    [svc |-> p,
     result |-> {[key |-> k, requests |-> p.proxyStats[k].requests,
                  failures |-> p.proxyStats[k].failures,
                  isFailed |-> k \in p.failedProxies] : k \in DOMAIN p.proxyStats}]

ResetFailedProxies(p) ==
    [svc |-> [p EXCEPT !.failedProxies = {}], result |-> NoProxy]

\* the counters the model lets grow
StatsTotal(stats) ==
    LET RECURSIVE Sum(_)
        Sum(K) == IF K = {} THEN 0
                  ELSE LET k == CHOOSE x \in K : TRUE
                       IN  stats[k].requests + stats[k].failures + Sum(K \ {k})
    IN  Sum(DOMAIN stats)

SetSvc(p) ==
    /\ proxies' = p.proxies
    /\ currentProxyIndex' = p.currentProxyIndex
    /\ failedProxies' = p.failedProxies
    /\ proxyStats' = p.proxyStats
    /\ StatsTotal(p.proxyStats) <= MaxProxyCalls

ProxyCall(op, arg, r) ==
    /\ SetSvc(r.svc)
    /\ lastProxyCall' = [op |-> op, arg |-> arg, indexBefore |-> currentProxyIndex,
                         result |-> r.result]
    /\ rotationRun' =
          IF op = "rotateProxy"
          THEN IF Len(rotationRun.visited) >= Len(proxies)
               THEN [start |-> currentProxyIndex, visited |-> <<r.svc.currentProxyIndex>>]
               ELSE [rotationRun EXCEPT
                        !.visited = Append(rotationRun.visited, r.svc.currentProxyIndex)]
          ELSE [start |-> r.svc.currentProxyIndex, visited |-> <<>>]
    /\ UNCHANGED <<schedVars, queueVars, imageVars, extractVars>>

\* GET /api/proxy/current
GetCurrentProxyCall == ProxyCall("getCurrentProxy", NoProxy, GetCurrentProxy(Svc))
\* POST /api/proxy/rotate
RotateProxyCall == ProxyCall("rotateProxy", NoProxy, RotateProxy(Svc))
MarkProxyFailedCall(proxy) == ProxyCall("markProxyFailed", proxy, MarkProxyFailed(Svc, proxy))
\* GET /api/proxy/stats
GetProxyStatsCall == ProxyCall("getProxyStats", NoProxy, GetProxyStats(Svc))
\* POST /api/proxy/reset-failed
ResetFailedProxiesCall ==
    ProxyCall("resetFailedProxies", NoProxy, ResetFailedProxies(Svc))

-----------------------------------------------------------------------------
(* Initial state: the services as constructed, before initializeSchedules *)

InitSched ==
    /\ timers = <<>>
    /\ scheduledTasks = EmptyMap
    /\ taskStates = EmptyMap
    /\ isSchedulerRunning = FALSE
    /\ startAllPending = 0

InitQueue ==
    /\ jobs = <<>>
    /\ openContexts = 0
    /\ lastRange = [startPage |-> 0, endPage |-> 0, first |-> 0, last |-> 0]

InitImages ==
    /\ files = EmptyMap
    /\ fetches = EmptyMap
    /\ lastCall = [op |-> "none"]

\* the ProxyService constructor, PROXY_LIST giving the list `list`
InitProxy(list) ==
    /\ proxies = list
    /\ currentProxyIndex = 0
    /\ failedProxies = {}
    /\ proxyStats = EmptyMap
    /\ lastProxyCall = [op |-> "none"]
    /\ rotationRun = [start |-> 0, visited |-> <<>>]

\* no source row carries a proxy_config, nothing attempted or extracted yet
\* no series or episode row yet, no download in flight, no manager call made
InitData ==
    /\ db = [series |-> EmptyMap, episodes |-> EmptyMap, inserted |-> 0]
    /\ downloads = EmptyMap
    /\ lastScrape = [op |-> "none"]
    /\ callbacks = <<>>

InitExtract ==
    /\ proxyConfig = [s \in {"s1", "s2", "s3", "s4"} |-> NoProxy]
    /\ lastAttempt = [job |-> 0]
    /\ lastRecord = [op |-> "none"]
    /\ InitData

\* the scheduler with an empty sources table, filled through the sources routes
SchedInit ==
    /\ sources = EmptyMap
    /\ InitSched
    /\ InitQueue
    /\ InitImages
    /\ InitProxy(LoadProxies(<<>>))
    /\ InitExtract

SchedNext ==
    \/ StartAllSchedulesCall
    \/ StartAllSchedulesResume
    \/ StopAllSchedulesCall
    \/ \E s \in SourceIds : StartScheduleForSourceCall(s)
    \/ \E s \in SourceIds : PauseScheduleForSourceCall(s)
    \/ \E s \in SourceIds, m \in Intervals : UpdateScheduleForSourceCall(s, m)
    \/ \E s \in SourceIds : StopScheduleForSourceCall(s)
    \/ \E s \in SourceIds, a \in BOOLEAN : PostSource(s, a, DefaultInterval)
    \/ \E s \in SourceIds, a \in BOOLEAN : PutSource(s, a, DefaultInterval)
    \/ \E s \in SourceIds : DeleteSource(s)
    \/ \E t \in 1..MaxTimers : Tick(t)

SpecSched == SchedInit /\ [][SchedNext]_vars

-----------------------------------------------------------------------------
(* The queue over a fixed sources table: an active source of a known theme, *)
(* an inactive one and one of a theme createManager does not know; "s4" is  *)
(* in no row.                                                               *)

JobSourceIds == {"s1", "s2", "s3", "s4"}

QueueSources ==
    [s \in {"s1", "s2", "s3"} |->
        CASE s = "s1" -> SourceRow(TRUE, DefaultInterval, "themesia")
          [] s = "s2" -> SourceRow(FALSE, DefaultInterval, "madara")
          [] OTHER -> SourceRow(TRUE, DefaultInterval, "custom")]

QueueInit ==
    /\ sources = QueueSources
    /\ InitSched
    /\ InitQueue
    /\ InitImages
    /\ InitProxy(LoadProxies(<<>>))
    /\ InitExtract

\* jobs of the three priorities on the active source; attempts succeed or throw
QueueNext ==
    \/ StartScrapingCall("s1", "recent") /\ Len(jobs') <= MaxJobs
    \/ PostSeriesCall("s1", "u1") /\ Len(jobs') <= MaxJobs
    \/ ScrapeMultiplePagesCall("s1", 1, 1) /\ Len(jobs') <= MaxJobs
    \/ \E j \in 1..MaxJobs : WorkerPull(j)
    \/ \E j \in 1..MaxJobs, env \in {"ok", "scrapeFails"} : WorkerProcess(j, env)
    \/ \E j \in 1..MaxJobs : BackoffElapsed(j)

SpecQueue == QueueInit /\ [][QueueNext]_vars

\* page-range requests, also with startPage > endPage
PagesNext ==
    \/ \E a \in 1..MaxPage, b \in 1..MaxPage :
          ScrapeMultiplePagesCall("s1", a, b) /\ Len(jobs') <= MaxPage
    \/ \E j \in 1..MaxPage : WorkerPull(j)
    \/ \E j \in 1..MaxPage, env \in {"ok", "scrapeFails"} : WorkerProcess(j, env)
    \/ \E j \in 1..MaxPage : BackoffElapsed(j)

SpecPages == QueueInit /\ [][PagesNext]_vars

\* more jobs than the worker's concurrency, all alike
PoolNext ==
    \/ StartScrapingCall("s1", "recent") /\ Len(jobs') <= MaxPoolJobs
    \/ \E j \in 1..MaxPoolJobs : WorkerPull(j)
    \/ \E j \in 1..MaxPoolJobs, env \in {"ok", "scrapeFails"} : WorkerProcess(j, env)
    \/ \E j \in 1..MaxPoolJobs : BackoffElapsed(j)

SpecPool == QueueInit /\ [][PoolNext]_vars

\* few jobs, on every kind of source and with every outcome of an attempt
AttemptNext ==
    \/ \E s \in JobSourceIds : StartScrapingCall(s, "recent") /\ Len(jobs') <= MaxAttemptJobs
    \/ \E u \in {NoUrl, "u1"} : PostSeriesCall("s1", u) /\ Len(jobs') <= MaxAttemptJobs
    \/ \E u \in {NoUrl, "u1"} : PostEpisodeCall("s1", u) /\ Len(jobs') <= MaxAttemptJobs
    \/ \E j \in 1..MaxAttemptJobs : WorkerPull(j)
    \/ \E j \in 1..MaxAttemptJobs, env \in Envs : WorkerProcess(j, env)
    \/ \E j \in 1..MaxAttemptJobs : BackoffElapsed(j)

SpecAttempts == QueueInit /\ [][AttemptNext]_vars

\* every attempt terminates, delays elapse and the worker keeps pulling
AttemptFairness ==
    /\ WF_vars(\E j \in 1..MaxAttemptJobs : WorkerPull(j))
    /\ WF_vars(\E j \in 1..MaxAttemptJobs, env \in Envs : WorkerProcess(j, env))
    /\ WF_vars(\E j \in 1..MaxAttemptJobs : BackoffElapsed(j))

SpecAttemptsFair == QueueInit /\ [][AttemptNext]_vars /\ AttemptFairness

-----------------------------------------------------------------------------
(* Cron callbacks next to the worker *)

TickSources == [s \in SourceIds |-> SourceRow(s = "s1", DefaultInterval, "themesia")]

TickInit ==
    /\ sources = TickSources
    /\ InitSched
    /\ InitQueue
    /\ InitImages
    /\ InitProxy(LoadProxies(<<>>))
    /\ InitExtract

\* the active source scheduled; its tasks tick while the worker runs the jobs
TickNext ==
    \/ StartAllSchedulesCall
    \/ StartAllSchedulesResume
    \/ \E s \in SourceIds : PauseScheduleForSourceCall(s)
    \/ \E t \in 1..MaxTimers : TickFires(t)
    \/ \E c \in 1..MaxTicks, added \in BOOLEAN : AddSettles(c, added)
    \/ \E j \in 1..MaxTicks : WorkerPull(j)
    \/ \E j \in 1..MaxTicks : WorkerProcess(j, "ok")

SpecTicks == TickInit /\ [][TickNext]_vars

-----------------------------------------------------------------------------
(* Path derivation: the relative paths of two acquisitions *)

MaxPosition == 11

\* ids as the managers derive them: a series id is one URL segment or an
\* attribute value, an episode id is two URL segments joined with '-'
PathSeriesIds == {"a", "b", "a/episodes/b-1"}
PathEpisodeIds == {"a-1", "b-1", "cover.webp-1"}
PathTriples == [seriesId : PathSeriesIds, episodeId : PathEpisodeIds, position : 1..MaxPosition]

PagePath(x) == RelativePath(EpisodeImagePath(x.seriesId, x.episodeId, x.position))

\* storeSeriesCover and storeEpisodeImages derive the paths of the images of y;
\* x is the acquisition before it
DerivePaths(y) ==
    /\ LET x == IF lastScrape.op = "paths" THEN lastScrape.y ELSE y
       IN  lastScrape' = [op |-> "paths", x |-> x, y |-> y,
                          pageX |-> PagePath(x), pageY |-> PagePath(y),
                          coverX |-> RelativePath(CoverPath(x.seriesId)),
                          coverY |-> RelativePath(CoverPath(y.seriesId))]
    /\ UNCHANGED <<proxyConfig, lastAttempt, lastRecord, db, downloads, callbacks>>
    /\ UNCHANGED <<schedVars, queueVars, imageVars, proxyVars>>

PathNext == \E y \in PathTriples : DerivePaths(y)

SpecPaths == SchedInit /\ [][PathNext]_vars

-----------------------------------------------------------------------------
(* downloadAndProcessImage await by await, for the jobs the worker runs at once *)

Callers == {"job1", "job2"}

\* a job calls downloadAndProcessImage: the call is at its existence check
DownloadBegins(w, imageUrl, relativePath) ==
    /\ IF w \in DOMAIN downloads THEN downloads[w].at \in {"returned", "thrown"} ELSE TRUE
    /\ downloads' = Put(downloads, w,
                        [at |-> "fileExists", url |-> imageUrl, path |-> relativePath,
                         fetched |-> FALSE, wrote |-> FALSE, size |-> 0])
    /\ UNCHANGED <<proxyConfig, lastAttempt, lastRecord, db, lastScrape, callbacks>>
    /\ UNCHANGED <<schedVars, queueVars, imageVars, proxyVars>>

\* await this.fileExists(fullLocalPath) answers: return the existing file, or go
\* on to the fetch
FileExistsAnswers(w) ==
    /\ w \in DOMAIN downloads
    /\ downloads[w].at = "fileExists"
    /\ downloads' = [downloads EXCEPT
                        ![w].at = IF downloads[w].path \in DOMAIN files
                                  THEN "returned" ELSE "fetch",
                        ![w].size = Count(files, downloads[w].path)]
    /\ UNCHANGED <<proxyConfig, lastAttempt, lastRecord, db, lastScrape, callbacks>>
    /\ UNCHANGED <<schedVars, queueVars, imageVars, proxyVars>>

\* await fetch(imageUrl), the size check and the transformation: the call
\* throws, or holds the processed buffer and goes on to writeFile
FetchAnswers(w, env) ==
    /\ w \in DOMAIN downloads
    /\ downloads[w].at = "fetch"
    /\ Count(fetches, downloads[w].path) < MaxFetches
    /\ fetches' = Put(fetches, downloads[w].path, Count(fetches, downloads[w].path) + 1)
    /\ LET r == Download(files, downloads[w].url, downloads[w].path, env)
       IN  downloads' = [downloads EXCEPT
                            ![w].fetched = TRUE,
                            ![w].size = env.sharp,
                            ![w].at = IF r.thrown /\ r.result.processingError # "write"
                                      THEN "thrown"
                                      ELSE IF r.thrown THEN "writeFails" ELSE "writeFile"]
    /\ UNCHANGED <<files, lastCall>>
    /\ UNCHANGED <<proxyConfig, lastAttempt, lastRecord, db, lastScrape, callbacks>>
    /\ UNCHANGED <<schedVars, queueVars, proxyVars>>

\* await writeFile(fullLocalPath, processedBuffer) settles
WriteFileSettles(w) ==
    /\ w \in DOMAIN downloads
    /\ downloads[w].at \in {"writeFile", "writeFails"}
    /\ files' = IF downloads[w].at = "writeFile"
                THEN Put(files, downloads[w].path, downloads[w].size) ELSE files
    /\ downloads' = [downloads EXCEPT
                        ![w].wrote = downloads[w].at = "writeFile",
                        ![w].at = IF downloads[w].at = "writeFile" THEN "returned" ELSE "thrown"]
    /\ UNCHANGED <<fetches, lastCall>>
    /\ UNCHANGED <<proxyConfig, lastAttempt, lastRecord, db, lastScrape, callbacks>>
    /\ UNCHANGED <<schedVars, queueVars, proxyVars>>

\* two jobs of one process acquiring the covers of series a and b
ConcurrentNext ==
    \/ \E w \in Callers, s \in {"a", "b"} : DownloadBegins(w, "u1", CoverPath(s))
    \/ \E w \in Callers : FileExistsAnswers(w)
    \/ \E w \in Callers, env \in ImageEnvs : FetchAnswers(w, env)
    \/ \E w \in Callers : WriteFileSettles(w)

SpecConcurrent == SchedInit /\ [][ConcurrentNext]_vars

-----------------------------------------------------------------------------
(* writeFile step by step: fs/promises writeFile opens the path with flag 'w' *)
(* (creating or truncating the file), writes the buffer and closes; access()  *)
(* in fileExists answers true from the moment the file is created             *)

\* the paths some call's writeFile has completed on without error
CompletedWrites == IF lastCall.op = "writeFile" THEN lastCall.completed ELSE {}

\* writeFile opens the file: it is created empty, unless the open itself fails
WriteFileOpens(w, opened) ==
    /\ w \in DOMAIN downloads
    /\ downloads[w].at \in {"writeFile", "writeFails"}
    /\ opened \/ downloads[w].at = "writeFails"
    /\ files' = IF opened THEN Put(files, downloads[w].path, 0) ELSE files
    /\ downloads' = [downloads EXCEPT
                        ![w].at = IF ~opened THEN "thrown"
                                  ELSE IF downloads[w].at = "writeFile"
                                  THEN "writing" ELSE "writingFails"]
    /\ UNCHANGED <<fetches, lastCall>>
    /\ UNCHANGED <<proxyConfig, lastAttempt, lastRecord, db, lastScrape, callbacks>>
    /\ UNCHANGED <<schedVars, queueVars, proxyVars>>

\* writeFile settles: the whole buffer is on disk and the call returns
\* processed = true, or the write failed after `partial` bytes and the call
\* throws, the file staying as it is
WriteFileCloses(w, partial) ==
    /\ w \in DOMAIN downloads
    /\ downloads[w].at \in {"writing", "writingFails"}
    /\ partial < downloads[w].size
    /\ IF downloads[w].at = "writing"
       THEN /\ files' = Put(files, downloads[w].path, downloads[w].size)
            /\ lastCall' = [op |-> "writeFile",
                            completed |-> CompletedWrites \cup {downloads[w].path}]
            /\ downloads' = [downloads EXCEPT ![w].wrote = TRUE, ![w].at = "returned"]
       ELSE /\ files' = Put(files, downloads[w].path, partial)
            /\ lastCall' = lastCall
            /\ downloads' = [downloads EXCEPT ![w].at = "thrown"]
    /\ UNCHANGED fetches
    /\ UNCHANGED <<proxyConfig, lastAttempt, lastRecord, db, lastScrape, callbacks>>
    /\ UNCHANGED <<schedVars, queueVars, proxyVars>>

\* two jobs of one process acquiring the cover of series a
WritesNext ==
    \/ \E w \in Callers : DownloadBegins(w, "u1", CoverPath("a"))
    \/ \E w \in Callers : FileExistsAnswers(w)
    \/ \E w \in Callers, env \in ImageEnvs : FetchAnswers(w, env)
    \/ \E w \in Callers, opened \in BOOLEAN : WriteFileOpens(w, opened)
    \/ \E w \in Callers, partial \in {0, 100} : WriteFileCloses(w, partial)

SpecWrites == SchedInit /\ [][WritesNext]_vars

-----------------------------------------------------------------------------
(* getQueueStatus await by await, next to the worker *)

MaxStatusJobs == 2

QueueStates == <<"waiting", "active", "completed", "failed">>

\* GET /api/scraping/status: getQueueStatus is called and awaits getWaiting()
GetQueueStatusBegins ==
    /\ lastScrape.op = "getQueueStatus" => lastScrape.at = 5
    /\ lastScrape' = [op |-> "getQueueStatus", at |-> 1, admitted |-> JobIds(jobs),
                      lists |-> <<{}, {}, {}, {}>>]
    /\ UNCHANGED <<proxyConfig, lastAttempt, lastRecord, db, downloads, callbacks>>
    /\ UNCHANGED <<schedVars, queueVars, imageVars, proxyVars>>

\* the pending one of getWaiting(), getActive(), getCompleted(), getFailed()
\* answers with the jobs in that state now; after the fourth the counts are
\* returned (at = 5)
GetQueueStatusAnswers ==
    /\ lastScrape.op = "getQueueStatus"
    /\ lastScrape.at <= 4
    /\ lastScrape' = [lastScrape EXCEPT
                         !.lists[lastScrape.at] = InState(jobs, QueueStates[lastScrape.at]),
                         !.at = @ + 1]
    /\ UNCHANGED <<proxyConfig, lastAttempt, lastRecord, db, downloads, callbacks>>
    /\ UNCHANGED <<schedVars, queueVars, imageVars, proxyVars>>

StatusNext ==
    \/ StartScrapingCall("s1", "recent") /\ Len(jobs') <= MaxStatusJobs
    \/ \E j \in 1..MaxStatusJobs : WorkerPull(j)
    \/ \E j \in 1..MaxStatusJobs, env \in {"ok", "scrapeFails"} : WorkerProcess(j, env)
    \/ \E j \in 1..MaxStatusJobs : BackoffElapsed(j)
    \/ GetQueueStatusBegins
    \/ GetQueueStatusAnswers

SpecStatus == QueueInit /\ [][StatusNext]_vars

-----------------------------------------------------------------------------
(* storeEpisodeImages run again on an episode whose remote image list changed *)

\* for every stored file, the remote URL whose bytes the last write put there
OriginOf == IF lastScrape.op = "origins" THEN lastScrape.of ELSE EmptyMap

RECURSIVE WrittenFrom(_, _, _, _, _)
WrittenFrom(o, urls, paths, passes, i) ==
    IF i > Len(passes) THEN o
    ELSE WrittenFrom(IF passes[i].wrote THEN Put(o, paths[i], urls[i]) ELSE o,
                     urls, paths, passes, i + 1)

\* one storeEpisodeImages call on the image list the site serves now
StoreEpisodeImagesRun(imageUrls, seriesId, episodeId, envs) ==
    LET paths == [i \in 1..Len(imageUrls) |-> EpisodeImagePath(seriesId, episodeId, i)]
        r == StoreEpisodeImages(files, imageUrls, seriesId, episodeId, envs)
    IN  /\ files' = r.files
        /\ fetches' = CountFetches(fetches, paths, r.passes, 1)
        /\ \A p \in DOMAIN fetches' : fetches'[p] <= MaxFetches
        /\ lastCall' = [op |-> "episode", urls |-> imageUrls, paths |-> paths,
                        envs |-> envs, passes |-> r.passes, results |-> r.results]
        /\ lastScrape' = [op |-> "origins",
                          of |-> WrittenFrom(OriginOf, imageUrls, paths, r.passes, 1)]
        /\ UNCHANGED <<proxyConfig, lastAttempt, lastRecord, db, downloads, callbacks>>
        /\ UNCHANGED <<schedVars, queueVars, proxyVars>>

\* an image is served and stored, or its fetch answers 404
ReorderEnvs ==
    { ImageEnv("http404", 0, 0, FALSE),
      ImageEnv("ok", 2 * 1024 * 1024, 700, TRUE) }

ReorderNext ==
    \E urls \in SeqsUpTo(Urls, MaxImages) :
          \E envs \in [1..Len(urls) -> ReorderEnvs] :
              StoreEpisodeImagesRun(urls, "a", "e1", envs)

SpecReorder == SchedInit /\ [][ReorderNext]_vars

-----------------------------------------------------------------------------
(* Single-series scrapes: getSeriesData and the save of its record, run again *)
(* on the same URL and page                                                  *)

MaxRuns == 2
MaxText == 3

Randoms == [series : RandomIds, episode : RandomIds]

\* a series job for `url` on a source of theme `theme`, whose site serves `page`
SeriesJob(theme, url, page) ==
    lastScrape = [op |-> "getSeriesData", theme |-> theme, url |-> url, page |-> page,
                  runs |-> <<>>]

\* scrapeSingleSeries: getSeriesData, then saveSeriesToDatabase of the record
ScrapeSingleSeries(random) ==
    /\ lastScrape.op = "getSeriesData"
    /\ Len(lastScrape.runs) < MaxRuns
    /\ LET r == GetSeriesData(lastScrape.theme, lastScrape.url, lastScrape.page, random)
       IN  /\ lastScrape' = [lastScrape EXCEPT !.runs = Append(@, r)]
           /\ db' = IF r.thrown THEN db ELSE SaveSeriesToDatabase(db, <<r.series>>)
    /\ UNCHANGED <<proxyConfig, lastAttempt, lastRecord, downloads, callbacks>>
    /\ UNCHANGED <<schedVars, queueVars, imageVars, proxyVars>>

SeriesNext == \E random \in Randoms : ScrapeSingleSeries(random)

BaseInit ==
    /\ sources = EmptyMap
    /\ InitSched
    /\ InitQueue
    /\ InitImages
    /\ InitProxy(LoadProxies(<<>>))
    /\ proxyConfig = [s \in {"s1", "s2", "s3", "s4"} |-> NoProxy]
    /\ lastAttempt = [job |-> 0]
    /\ lastRecord = [op |-> "none"]
    /\ db = [series |-> EmptyMap, episodes |-> EmptyMap, inserted |-> 0]
    /\ downloads = EmptyMap
    /\ callbacks = <<>>

\* series URLs: under /manga/, with and without a trailing slash, and elsewhere
SeriesUrls ==
    { Domain \o MangaDir \o <<"a">>,
      Domain \o MangaDir \o <<"a", "/">>,
      Domain \o <<"/", "s", "/", "a", "/">> }

EpisodeUrls ==
    { Domain \o <<"/", "a", "/", "1">>,
      Domain \o <<"/", "a", "/", "1", "/">>,
      <<"/", "1">> }

PostidClasses == {<<>>, <<"p", "o", "s", "t", "i", "d", "-", "7">>}
DataIds == {<<>>, <<"9">>}

\* the ids of one series and its episode, over the URLs and the id attributes
IdsInit ==
    /\ BaseInit
    /\ \E theme \in ManagerThemes, url \in SeriesUrls, cls \in PostidClasses,
          dataId \in DataIds, href \in EpisodeUrls :
          SeriesJob(theme, url,
                    SeriesPage("ok", cls, dataId,
                               <<EpisodeElement(<<"1">>, <<"1">>, href, "images")>>))

SpecIds == IdsInit /\ [][SeriesNext]_vars

\* the texts an episode element can carry
TextChars == {"0", "1", "5", ".", ",", "-", "x", " "}
Texts == UNION {[1..n -> TextChars] : n \in 0..MaxText}

\* one episode element over every text and every reader page
EpisodesInit ==
    /\ BaseInit
    /\ \E theme \in ManagerThemes, text \in Texts, page \in EpisodePages :
          SeriesJob(theme, Domain \o MangaDir \o <<"a">>,
                    SeriesPage("ok", <<>>, <<>>,
                               <<EpisodeElement(text, text, <<"/", "a", "/", "1">>, page)>>))

SpecEpisodes == EpisodesInit /\ [][SeriesNext]_vars

-----------------------------------------------------------------------------
(* saveSeriesToDatabase, run again on the same list *)

MaxSeries == 2
MaxEpisodes == 2

\* the episodes a record can carry: two ids, each with ordinal 1 or 12.5
SaveEpisodeIds == {<<"a", "-", "1">>, <<"a", "-", "2">>}
SaveNumbers == {Num(1000), Num(12500)}

SaveEpisodes(seriesId) ==
    { [id |-> id, seriesId |-> seriesId, number |-> n, url |-> id, images |-> <<"u1">>] :
         id \in SaveEpisodeIds, n \in SaveNumbers }

SaveRecords ==
    UNION { { [id |-> id, url |-> id, episodes |-> eps] :
                 eps \in SeqsUpTo(SaveEpisodes(id), MaxEpisodes) } : id \in {<<"a">>, <<"b">>} }

\* a job whose scrape returned seriesList
SaveJob(seriesList) ==
    lastScrape = [op |-> "saveSeriesToDatabase", seriesList |-> seriesList, runs |-> <<>>]

\* saveSeriesToDatabase(seriesList); the run is recorded with the tables it left
SaveSeriesToDatabaseCall ==
    /\ lastScrape.op = "saveSeriesToDatabase"
    /\ Len(lastScrape.runs) < MaxRuns
    /\ db' = SaveSeriesToDatabase(db, lastScrape.seriesList)
    /\ lastScrape' = [lastScrape EXCEPT !.runs = Append(@, db')]
    /\ UNCHANGED <<proxyConfig, lastAttempt, lastRecord, downloads, callbacks>>
    /\ UNCHANGED <<schedVars, queueVars, imageVars, proxyVars>>

SaveInit ==
    /\ BaseInit
    /\ \E seriesList \in SeqsUpTo(SaveRecords, MaxSeries) : SaveJob(seriesList)

SaveNext == SaveSeriesToDatabaseCall

SpecSave == SaveInit /\ [][SaveNext]_vars

-----------------------------------------------------------------------------
(* Two single-series jobs, for series of two sites or of one site *)

\* a series of the site at `domain`: its URL, the theme of its source and its
\* page, whose one episode links to <domain>/<slug>/1
SiteSeries(theme, domain, slug, postidClass) ==
    [theme |-> theme,
     url |-> <<domain>> \o MangaDir \o <<slug>>,
     page |-> SeriesPage("ok", postidClass, <<>>,
                         <<EpisodeElement(<<"1">>, <<"1">>,
                                          <<domain, "/", slug, "/", "1">>, "images")>>)]

SiteSeriesSet ==
    { SiteSeries(theme, domain, slug, cls) :
        theme \in ManagerThemes, domain \in {"d", "e"}, slug \in {"a", "b"},
        cls \in PostidClasses }

TwoSeriesInit ==
    /\ BaseInit
    /\ \E x \in SiteSeriesSet, y \in SiteSeriesSet :
          lastScrape = [op |-> "twoSeries", items |-> <<x, y>>, runs |-> <<>>]

\* the next of the two jobs: scrapeSingleSeries on its URL
ScrapeNextSeries(random) ==
    /\ lastScrape.op = "twoSeries"
    /\ Len(lastScrape.runs) < Len(lastScrape.items)
    /\ LET item == lastScrape.items[Len(lastScrape.runs) + 1]
           r == GetSeriesData(item.theme, item.url, item.page, random)
       IN  /\ lastScrape' = [lastScrape EXCEPT !.runs = Append(@, r)]
           /\ db' = IF r.thrown THEN db ELSE SaveSeriesToDatabase(db, <<r.series>>)
    /\ UNCHANGED <<proxyConfig, lastAttempt, lastRecord, downloads, callbacks>>
    /\ UNCHANGED <<schedVars, queueVars, imageVars, proxyVars>>

TwoSeriesNext == \E random \in Randoms : ScrapeNextSeries(random)

SpecTwoSeries == TwoSeriesInit /\ [][TwoSeriesNext]_vars

-----------------------------------------------------------------------------
(* recent and full jobs: the index page, its series pages, the save *)

MaxScrapeJobs == 1
MaxCards == 2

ScrapeSources ==
    [s \in {"s1", "s2", "s3"} |->
        CASE s = "s1" -> SourceRow(TRUE, DefaultInterval, "themesia")
          [] s = "s2" -> SourceRow(TRUE, DefaultInterval, "madara")
          [] OTHER -> SourceRow(TRUE, DefaultInterval, "uzay")]

\* the cards of an index page: a series that scrapes, one whose page cannot be
\* fetched, one whose reader page cannot be fetched, and a card without href
Cards ==
    { [href |-> Domain \o MangaDir \o <<"a">>,
       page |-> SeriesPage("ok", <<>>, <<>>,
                    <<EpisodeElement(<<"1">>, <<"1">>, <<"/", "a", "/", "1">>, "images")>>)],
      [href |-> Domain \o MangaDir \o <<"b">>,
       page |-> SeriesPage("fails", <<>>, <<>>, <<>>)],
      [href |-> Domain \o MangaDir \o <<"c">>,
       page |-> SeriesPage("ok", <<>>, <<>>,
                    <<EpisodeElement(<<"2">>, <<"2">>, <<"/", "c", "/", "2">>, "fetchFails")>>)],
      [href |-> <<>>,
       page |-> SeriesPage("ok", <<>>, <<>>, <<>>)] }

IndexPages == {IndexPage(fetch, cards) : fetch \in {"ok", "fails"}, cards \in SeqsUpTo(Cards, MaxCards)}

FixedRandom == [series |-> <<"r", "1">>, episode |-> <<"r", "1">>]

\* one run of the processor for the recent or full job j, the site serving
\* `index`: getFullSeries, then saveSeriesToDatabase, then manager.close()
ScrapeAttempt(j, index) ==
    /\ j \in JobIds(jobs)
    /\ jobs[j].state = "active"
    /\ jobs[j].data.type \in {"recent", "full"}
    /\ HasManager(sources, jobs[j].data)
    /\ LET theme == sources[jobs[j].data.sourceId].theme
           scraped == GetFullSeries(theme, index, FixedRandom)
           r == ProcessScrapingJob(sources, jobs[j].data,
                                   IF scraped.thrown THEN "scrapeFails" ELSE "ok")
       IN  /\ jobs' = IF r.thrown THEN MoveToFailed(jobs, j) ELSE MoveToCompleted(jobs, j)
           /\ openContexts' = openContexts + r.opened
           /\ db' = IF scraped.thrown THEN db ELSE SaveSeriesToDatabase(db, scraped.series)
           /\ lastScrape' = [op |-> "getFullSeries", job |-> j, theme |-> theme,
                             index |-> index, result |-> scraped,
                             attemptsMade |-> jobs[j].attemptsMade]
    /\ UNCHANGED lastRange
    /\ UNCHANGED <<proxyConfig, lastAttempt, lastRecord, downloads, callbacks>>
    /\ UNCHANGED <<schedVars, imageVars, proxyVars>>

ScrapeInit ==
    /\ sources = ScrapeSources
    /\ InitSched
    /\ InitQueue
    /\ InitImages
    /\ InitProxy(LoadProxies(<<>>))
    /\ InitExtract

ScrapeNext ==
    \/ \E s \in DOMAIN ScrapeSources, type \in {"recent", "full"} :
          StartScrapingCall(s, type) /\ Len(jobs') <= MaxScrapeJobs
    \/ \E j \in 1..MaxScrapeJobs : WorkerPull(j)
    \/ \E j \in 1..MaxScrapeJobs, index \in IndexPages : ScrapeAttempt(j, index)
    \/ \E j \in 1..MaxScrapeJobs : BackoffElapsed(j)

SpecScrape == ScrapeInit /\ [][ScrapeNext]_vars

-----------------------------------------------------------------------------
(* Single-episode jobs next to a recent job and a stored cover *)

MaxEpisodeJobs == 2

\* scrapeEpisodeImages that stores the images it found
ScrapeEpisodeImagesStoring(d, fs, theme, page) ==
    LET r == GetEpisodeImages(theme, page)
        envs == [i \in 1..Len(r.images) |-> ImageEnv("ok", 2 * 1024 * 1024, 700, TRUE)]
    IN  [thrown |-> r.thrown, db |-> d,
         files |-> StoreEpisodeImages(fs, r.images, "a", "e1", envs).files,
         found |-> Len(r.images)]

\* scrapeEpisodeImages(manager, episodeUrl): getEpisodeImages, then a log line
\* with the number of images; the tables and the store as they were
ScrapeEpisodeImages(d, fs, theme, page) ==
    LET r == GetEpisodeImages(theme, page)
    IN  [thrown |-> r.thrown, db |-> d, files |-> fs, found |-> Len(r.images)]

\* one run of the processor for the episode job j, the site serving the reader
\* page `page`: the case 'episode' of processScrapingJob, then manager.close()
EpisodeAttempt(j, page) ==
    /\ j \in JobIds(jobs)
    /\ jobs[j].state = "active"
    /\ jobs[j].data.type = "episode"
    /\ HasManager(sources, jobs[j].data)
    /\ LET theme == sources[jobs[j].data.sourceId].theme
           s == IF jobs[j].data.episodeUrl # NoUrl
                THEN ScrapeEpisodeImages(db, files, theme, page)
                ELSE [thrown |-> FALSE, db |-> db, files |-> files, found |-> 0]
           r == ProcessScrapingJob(sources, jobs[j].data,
                                   IF s.thrown THEN "scrapeFails" ELSE "ok")
       IN  /\ jobs' = IF r.thrown THEN MoveToFailed(jobs, j) ELSE MoveToCompleted(jobs, j)
           /\ openContexts' = openContexts + r.opened
           /\ db' = s.db
           /\ files' = s.files
           /\ lastScrape' = [op |-> "scrapeEpisodeImages", job |-> j, found |-> s.found]
    /\ UNCHANGED <<lastRange, fetches, lastCall>>
    /\ UNCHANGED <<proxyConfig, lastAttempt, lastRecord, downloads, callbacks>>
    /\ UNCHANGED <<schedVars, proxyVars>>

\* an index page with one series that scrapes
OneSeriesIndex ==
    IndexPage("ok",
        <<[href |-> Domain \o MangaDir \o <<"a">>,
           page |-> SeriesPage("ok", <<>>, <<>>,
                        <<EpisodeElement(<<"1">>, <<"1">>, <<"/", "a", "/", "1">>, "images")>>)]>>)

EpisodeJobNext ==
    \/ \E s \in {"s1", "s2"}, u \in {NoUrl, "u1"} :
          PostEpisodeCall(s, u) /\ Len(jobs') <= MaxEpisodeJobs
    \/ StartScrapingCall("s3", "recent") /\ Len(jobs') <= MaxEpisodeJobs
    \/ \E j \in 1..MaxEpisodeJobs : WorkerPull(j)
    \/ \E j \in 1..MaxEpisodeJobs : ScrapeAttempt(j, OneSeriesIndex)
    \/ \E j \in 1..MaxEpisodeJobs, page \in EpisodePages : EpisodeAttempt(j, page)
    \/ \E j \in 1..MaxEpisodeJobs : BackoffElapsed(j)
    \/ StoreSeriesCoverCall("u1", "a", ImageEnv("ok", 2 * 1024 * 1024, 700, TRUE))

SpecEpisodeJobs == ScrapeInit /\ [][EpisodeJobNext]_vars

-----------------------------------------------------------------------------
(* The image store: acquisitions of the pages of one episode *)

ImageNext ==
    \E urls \in SeqsUpTo(Urls, MaxImages) :
          \E envs \in [1..Len(urls) -> ImageEnvs] :
              StoreEpisodeImagesCall(urls, "a", "e1", envs)

SpecImages == SchedInit /\ [][ImageNext]_vars

-----------------------------------------------------------------------------
(* C1: every source id has at most one live (started and not stopped)      *)
(* timer, counting the timers that scheduledTasks no longer references.    *)
LiveTimers(s) == {t \in DOMAIN timers : timers[t].sourceId = s /\ timers[t].running}

C1_AtMostOneLiveTimer == \A s \in SourceIds : Cardinality(LiveTimers(s)) <= 1

-----------------------------------------------------------------------------
(* C2: a job is executed at most 3 times; it is failed exactly when its    *)
(* third attempt has thrown; a failed job stays failed and no admitted job *)
(* leaves the queue.                                                       *)
C2_Counts ==
    \A j \in JobIds(jobs) :
        /\ jobs[j].started <= 3
        /\ jobs[j].attemptsMade <= jobs[j].started
        /\ (jobs[j].state = "failed") <=> (jobs[j].attemptsMade = 3)

C2_Kept ==
    \A j \in JobIds(jobs) :
        /\ j \in JobIds(jobs')
        /\ jobs'[j].data = jobs[j].data
        /\ jobs[j].state = "failed" => jobs'[j].state = "failed"

C2_RetryCap == []C2_Counts /\ [][C2_Kept]_vars

\* a job has failed after exactly three executions while another job exists
C2_Witness ==
    \E j \in JobIds(jobs) :
        jobs[j].state = "failed" /\ jobs[j].started = 3 /\ Len(jobs) > 1

-----------------------------------------------------------------------------
(* C3: a job whose source is missing, inactive or of an unknown theme is   *)
(* failed after exactly one attempt: the configuration error is not        *)
(* retried.                                                                *)
C3_ConfigErrorNotRetried ==
    \A j \in JobIds(jobs) :
        ~HasManager(sources, jobs[j].data) =>
            /\ jobs[j].started <= 1
            /\ jobs[j].attemptsMade >= 1 => jobs[j].state = "failed"

-----------------------------------------------------------------------------
(* C4: when an attempt has ended, by return or by throw, no browser        *)
(* context that its initialize() opened is still open.                     *)
C4_ContextsClosed == openContexts = 0

-----------------------------------------------------------------------------
(* C5: whenever the worker pulls a job, no other waiting job has a         *)
(* strictly greater priority value.                                        *)
Pulled(j) == jobs[j].state = "waiting" /\ jobs'[j].state = "active"

C5_PullsGreatestPriority ==
    [][\A j \in JobIds(jobs) :
          Pulled(j) => \A k \in InState(jobs, "waiting") :
                          jobs[k].priority <= jobs[j].priority]_vars

-----------------------------------------------------------------------------
(* C6: at most 3 jobs are active; a job is active exactly while one run of *)
(* the processor is in flight for it; and the worker pulls a job only      *)
(* while fewer than 3 runs are in flight.                                  *)
C6_AtMostThree ==
    /\ Cardinality(InState(jobs, "active")) <= 3
    /\ \A j \in JobIds(jobs) :
          jobs[j].running = IF jobs[j].state = "active" THEN 1 ELSE 0

C6_PullWhenFree ==
    \A j \in JobIds(jobs) :
        Pulled(j) => Cardinality({k \in JobIds(jobs) : jobs[k].running > 0}) < 3

C6_BoundedPool == []C6_AtMostThree /\ [][C6_PullWhenFree]_vars

\* three jobs are being processed while a fourth one waits
C6_Witness ==
    /\ Cardinality(InState(jobs, "active")) = 3
    /\ InState(jobs, "waiting") # {}

-----------------------------------------------------------------------------
(* C7: a job moves only waiting -> active -> completed or failed, and back *)
(* from active to waiting only for a retry below the attempt cap;          *)
(* completed and failed are absorbing; under fair scheduling every         *)
(* admitted job ends completed or failed.  A retried job waits in the      *)
(* queue's delayed set while its backoff runs: that is waiting here.       *)
Phase(job) == IF job.state = "delayed" THEN "waiting" ELSE job.state

C7_Moves ==
    \A j \in JobIds(jobs) :
        LET a == Phase(jobs[j])
            b == Phase(jobs'[j])
        IN  \/ a = b
            \/ a = "waiting" /\ b = "active"
            \/ a = "active" /\ b \in {"completed", "failed"}
            \/ a = "active" /\ b = "waiting" /\ jobs'[j].attemptsMade < 3

Terminal(j) == j \in JobIds(jobs) /\ jobs[j].state \in {"completed", "failed"}

C7_Lifecycle ==
    /\ [][C7_Moves]_vars
    /\ \A j \in 1..MaxAttemptJobs : (j \in JobIds(jobs)) ~> Terminal(j)

\* one job completed on its third attempt and another one failed
C7_Witness ==
    /\ \E j \in JobIds(jobs) : jobs[j].state = "completed" /\ jobs[j].attemptsMade = 2
    /\ \E j \in JobIds(jobs) : jobs[j].state = "failed"

-----------------------------------------------------------------------------
(* C8: scrapeMultiplePages(s, a, b) admits one full job per page of a..b,  *)
(* in order and none twice (none when a > b), each with its own attempt    *)
(* budget: a step of the queue changes at most one job.                    *)
C8_OnePerPage ==
    lastRange.first > 0 =>
        /\ lastRange.last - lastRange.first + 1 =
              IF lastRange.startPage <= lastRange.endPage
              THEN lastRange.endPage - lastRange.startPage + 1 ELSE 0
        /\ lastRange.last <= Len(jobs)
        /\ \A i \in lastRange.first..lastRange.last :
              /\ jobs[i].data.type = "full"
              /\ jobs[i].data.sourceId = "s1"
              /\ jobs[i].data.page = lastRange.startPage + (i - lastRange.first)
              /\ jobs[i].attempts = 3
              /\ jobs[i].attemptsMade <= jobs[i].started

C8_Independent ==
    \A j \in JobIds(jobs), k \in JobIds(jobs) :
        (j # k /\ jobs'[j] # jobs[j]) => jobs'[k] = jobs[k]

C8_PageRange == []C8_OnePerPage /\ [][C8_Independent]_vars

\* pages 1..3 admitted as three jobs; the first has failed twice, the
\* second once, the third not at all
C8_Witness ==
    /\ lastRange.first > 0
    /\ lastRange.last = lastRange.first + 2
    /\ jobs[lastRange.first].attemptsMade = 2
    /\ jobs[lastRange.first + 1].attemptsMade = 1
    /\ jobs[lastRange.last].attemptsMade = 0

-----------------------------------------------------------------------------
(* C9: an acquisition for a local path that already holds a file fetches   *)
(* nothing, writes nothing and returns processed = true with that path and *)
(* the existing file's size; a stored file is never fetched again.         *)
C9_ShortCircuit ==
    lastCall.op = "episode" =>
        \A i \in DOMAIN lastCall.passes :
            lastCall.passes[i].existed =>
                /\ ~lastCall.passes[i].fetched
                /\ ~lastCall.passes[i].wrote
                /\ lastCall.results[i].processed
                /\ lastCall.results[i].localPath = lastCall.paths[i]
                /\ lastCall.results[i].fileSize = lastCall.passes[i].sizeBefore

C9_Frozen ==
    \A p \in DOMAIN files :
        /\ p \in DOMAIN files'
        /\ files'[p] = files[p]
        /\ Count(fetches', p) = Count(fetches, p)

C9_Idempotent == []C9_ShortCircuit /\ [][C9_Frozen]_vars

\* u1 was stored at position 1 by one fetch; a later acquisition of u2 into
\* the same path found the file and returned its size
C9_Witness ==
    /\ lastCall.op = "episode"
    /\ Len(lastCall.urls) = 1
    /\ lastCall.urls[1] = "u2"
    /\ lastCall.passes[1].existed
    /\ lastCall.results[1].fileSize = 900
    /\ fetches[lastCall.paths[1]] = 1

-----------------------------------------------------------------------------
(* C10: a fetched payload of more than 10 MB is rejected before the        *)
(* transformation and nothing is written; storeEpisodeImages reports that  *)
(* image as not processed with its remote URL, and still fetches and       *)
(* stores the other images of the list.                                    *)
Oversized(i) ==
    /\ ~lastCall.passes[i].existed
    /\ lastCall.envs[i].status = "ok"
    /\ lastCall.envs[i].bytes > 10 * 1024 * 1024

Storable(i) ==
    /\ ~lastCall.passes[i].existed
    /\ lastCall.envs[i].status = "ok"
    /\ lastCall.envs[i].bytes <= 10 * 1024 * 1024
    /\ lastCall.envs[i].sharp # 0
    /\ lastCall.envs[i].writeOk

C10_SizeLimit ==
    lastCall.op = "episode" =>
        /\ Len(lastCall.results) = Len(lastCall.urls)
        /\ \A i \in DOMAIN lastCall.passes :
              /\ Oversized(i) =>
                    /\ lastCall.passes[i].fetched
                    /\ ~lastCall.passes[i].transformed
                    /\ ~lastCall.passes[i].wrote
                    /\ lastCall.paths[i] \notin DOMAIN files
                    /\ ~lastCall.results[i].processed
                    /\ lastCall.results[i].cdnUrl = lastCall.urls[i]
              /\ Storable(i) =>
                    /\ lastCall.passes[i].fetched
                    /\ lastCall.results[i].processed
                    /\ lastCall.paths[i] \in DOMAIN files
                    /\ files[lastCall.paths[i]] = lastCall.envs[i].sharp

\* of two images the first was over the limit and the second was stored
C10_Witness ==
    /\ lastCall.op = "episode"
    /\ Len(lastCall.urls) = 2
    /\ Oversized(1)
    /\ ~lastCall.results[1].processed
    /\ Storable(2)
    /\ lastCall.results[2].processed

-----------------------------------------------------------------------------
(* The proxy rotation manager alone, over every list PROXY_LIST can give *)

ProxyInit ==
    /\ sources = EmptyMap
    /\ InitSched
    /\ InitQueue
    /\ InitImages
    /\ \E list \in ProxyLists : InitProxy(list)
    /\ InitExtract

ProxyNext ==
    \/ GetCurrentProxyCall
    \/ RotateProxyCall
    \/ \E p \in Endpoints : MarkProxyFailedCall(p)
    \/ GetProxyStatsCall
    \/ ResetFailedProxiesCall

SpecProxy == ProxyInit /\ [][ProxyNext]_vars

-----------------------------------------------------------------------------
(* Callers of the rotation manager: each obtains the current endpoint with   *)
(* getCurrentProxy and later reports its failure with markProxyFailed        *)

ProxyWorkers == {"w1", "w2"}

\* the endpoint worker w obtained, and whether w has reported its failure
Obtained(w) == IF lastScrape.op = "proxyWorkers" THEN lastScrape.obtained[w] ELSE NoProxy
Reported(w) == IF lastScrape.op = "proxyWorkers" THEN lastScrape.reported[w] ELSE FALSE

KeepSvc(p) ==
    /\ proxies' = p.proxies
    /\ currentProxyIndex' = p.currentProxyIndex
    /\ failedProxies' = p.failedProxies
    /\ proxyStats' = p.proxyStats
    /\ UNCHANGED <<lastProxyCall, rotationRun>>

\* worker w calls getCurrentProxy() and keeps the endpoint it returns
WorkerObtains(w) ==
    /\ Obtained(w) = NoProxy
    /\ LET r == GetCurrentProxy(Svc)
       IN  /\ KeepSvc(r.svc)
           /\ lastScrape' = [op |-> "proxyWorkers",
                             obtained |-> [v \in ProxyWorkers |->
                                             IF v = w THEN r.result ELSE Obtained(v)],
                             reported |-> [v \in ProxyWorkers |-> Reported(v)]]
    /\ UNCHANGED <<proxyConfig, lastAttempt, lastRecord, db, downloads, callbacks>>
    /\ UNCHANGED <<schedVars, queueVars, imageVars>>

\* worker w calls markProxyFailed(p, error) for the endpoint p it obtained
WorkerReports(w) ==
    /\ Obtained(w) # NoProxy
    /\ ~Reported(w)
    /\ KeepSvc(MarkProxyFailed(Svc, Obtained(w)).svc)
    /\ lastScrape' = [lastScrape EXCEPT !.reported[w] = TRUE]
    /\ UNCHANGED <<proxyConfig, lastAttempt, lastRecord, db, downloads, callbacks>>
    /\ UNCHANGED <<schedVars, queueVars, imageVars>>

ReportNext ==
    \/ \E w \in ProxyWorkers : WorkerObtains(w)
    \/ \E w \in ProxyWorkers : WorkerReports(w)

SpecReports == ProxyInit /\ [][ReportNext]_vars

-----------------------------------------------------------------------------
(* rotateProxy, called several times in a row *)

\* n rotateProxy calls in a row
RECURSIVE RotateN(_, _)
RotateN(p, n) == IF n = 0 THEN p ELSE RotateN(RotateProxy(p).svc, n - 1)

\* the indices n rotateProxy calls in a row move to
RECURSIVE VisitedBy(_, _)
VisitedBy(p, n) ==
    IF n = 0 THEN <<>>
    ELSE LET q == RotateProxy(p).svc
         IN  <<q.currentProxyIndex>> \o VisitedBy(q, n - 1)

-----------------------------------------------------------------------------
(* C13: with L >= 2 endpoints, L rotateProxy calls in a row bring the       *)
(* current index back to where it started and stop at every position of    *)
(* the list exactly once; with one endpoint rotateProxy returns it and the  *)
(* index stays.                                                            *)

\* the rotations the run has made so far
C13_Run ==
    (Len(proxies) >= 2 /\ Len(rotationRun.visited) = Len(proxies)) =>
        /\ currentProxyIndex = rotationRun.start
        /\ {rotationRun.visited[i] : i \in 1..Len(proxies)} = 0..(Len(proxies) - 1)

\* the same from every reachable state of the service
C13_FromHere ==
    Len(proxies) >= 2 =>
        LET L == Len(proxies)
            v == VisitedBy(Svc, L)
        IN  /\ RotateN(Svc, L).currentProxyIndex = currentProxyIndex
            /\ {v[i] : i \in 1..L} = 0..(L - 1)
            /\ \A i, j \in 1..L : v[i] = v[j] => i = j

C13_Single ==
    Len(proxies) = 1 =>
        /\ RotateProxy(Svc).result = proxies[1]
        /\ RotateProxy(Svc).svc.currentProxyIndex = currentProxyIndex
        /\ lastProxyCall.op = "rotateProxy" =>
              lastProxyCall.result = proxies[1] /\ lastProxyCall.indexBefore = currentProxyIndex

C13_RotationCycle == C13_Run /\ C13_FromHere /\ C13_Single

C13_Witness ==
    /\ Len(proxies) = 3
    /\ lastProxyCall.op = "rotateProxy"
    /\ Len(rotationRun.visited) = 3
    /\ rotationRun.start = 1
    /\ currentProxyIndex = 1

-----------------------------------------------------------------------------
(* C14: whatever is called, the proxy list keeps its content and order, is  *)
(* never empty, starts with the default endpoint, and the current index is  *)
(* a position of the list.                                                  *)

C14_Range ==
    /\ Len(proxies) >= 1
    /\ proxies[1] = DefaultProxy
    /\ 0 <= currentProxyIndex
    /\ currentProxyIndex < Len(proxies)

C14_ListKept == [][proxies' = proxies]_vars

C14_ListInvariant == []C14_Range /\ C14_ListKept

C14_Witness ==
    /\ Len(proxies) = 3
    /\ currentProxyIndex = 2
    /\ lastProxyCall.op = "getProxyStats"
    /\ failedProxies # {}

-----------------------------------------------------------------------------
(* C15: markProxyFailed(p) removes no endpoint: it adds exactly 1 to p's    *)
(* failure count, marks p failed, and p can still be rotated to and         *)
(* returned by getCurrentProxy.                                             *)

C15_MarkKeeps ==
    \A p \in Endpoints :
        LET r == MarkProxyFailed(Svc, p).svc
        IN  /\ r.proxies = proxies
            /\ StatsOf(r.proxyStats, p).failures = StatsOf(proxyStats, p).failures + 1
            /\ \A k \in Endpoints \ {p} :
                  StatsOf(r.proxyStats, k).failures = StatsOf(proxyStats, k).failures
            /\ r.failedProxies = failedProxies \cup {p}
            /\ (\E i \in 1..Len(proxies) : proxies[i] = p) =>
                  \E n \in 0..(Len(proxies) - 1) : GetCurrentProxy(RotateN(r, n)).result = p

C15_Marked ==
    lastProxyCall.op = "markProxyFailed" =>
        /\ lastProxyCall.arg \in failedProxies
        /\ StatsOf(proxyStats, lastProxyCall.arg).failures >= 1

C15_FailedStaysEligible == C15_MarkKeeps /\ C15_Marked

C15_Witness ==
    /\ lastProxyCall.op = "getCurrentProxy"
    /\ lastProxyCall.result \in failedProxies
    /\ StatsOf(proxyStats, lastProxyCall.result).failures = 2

-----------------------------------------------------------------------------
(* C16: a failure reported against the current endpoint of a list of at     *)
(* least 2 moves the current index one position on, circularly, and the     *)
(* next getCurrentProxy returns the endpoint at that position.              *)

C16_FromHere ==
    Len(proxies) >= 2 =>
        LET next == (currentProxyIndex + 1) % Len(proxies)
            r == MarkProxyFailed(Svc, CurrentProxy(Svc)).svc
        IN  /\ r.currentProxyIndex = next
            /\ GetCurrentProxy(r).result = proxies[next + 1]

C16_Reported ==
    (/\ lastProxyCall.op = "markProxyFailed"
     /\ Len(proxies) >= 2
     /\ lastProxyCall.arg = proxies[lastProxyCall.indexBefore + 1]) =>
        currentProxyIndex = (lastProxyCall.indexBefore + 1) % Len(proxies)

C16_FailureRotates == C16_FromHere /\ C16_Reported

C16_Witness ==
    /\ lastProxyCall.op = "markProxyFailed"
    /\ Len(proxies) = 3
    /\ lastProxyCall.indexBefore = 2
    /\ lastProxyCall.arg = proxies[3]
    /\ currentProxyIndex = 0

-----------------------------------------------------------------------------
(* The extraction's image handling: covers and episodes of one series *)

\* a fetch that fails, a transformation that fails, a write that fails, a success
ExtractEnvs ==
    { ImageEnv("http404", 0, 0, FALSE),
      ImageEnv("ok", 2 * 1024 * 1024, 0, TRUE),
      ImageEnv("ok", 2 * 1024 * 1024, 700, FALSE),
      ImageEnv("ok", 2 * 1024 * 1024, 700, TRUE) }

ExtractNext ==
    \/ \E u \in Urls \cup {""}, env \in ExtractEnvs, dirOk \in BOOLEAN :
          ExtractCover(u, "a", env, dirOk)
    \/ \E urls \in SeqsUpTo(Urls, MaxImages), dirOk \in BOOLEAN :
          \E envs \in [1..Len(urls) -> ExtractEnvs] :
              ExtractEpisode(urls, "a", "e1", envs, dirOk)

SpecExtract == SchedInit /\ [][ExtractNext]_vars

-----------------------------------------------------------------------------
(* C11: storeEpisodeImages returns one result per URL, in order: result i   *)
(* carries URL i and the path of position i; whether it is processed        *)
(* depends on image i alone (its file, its fetch, transform and write),     *)
(* and a failing image does not end the call.                               *)

\* the file name of position i, written out
PositionFile(i) ==
    CASE i = 1 -> "001.webp" [] i = 2 -> "002.webp" [] i = 3 -> "003.webp"
      [] OTHER -> "?"

\* image i taken alone against the store as it was before the call
C11_Alone(fs, c, i) ==
    ~DownloadAndProcessImage(fs, c.urls[i], c.paths[i], c.envs[i]).thrown

C11_Call(fs, c) ==
    c.op = "episode" =>
        /\ Len(c.results) = Len(c.urls)
        /\ \A i \in 1..Len(c.urls) :
              /\ c.results[i].cdnUrl = c.urls[i]
              /\ c.results[i].localPath = <<"series", "a", "episodes", "e1", PositionFile(i)>>
              /\ c.results[i].processed = C11_Alone(fs, c, i)

C11_OneResultPerImage == [][C11_Call(files, lastCall')]_vars

C11_Witness ==
    /\ lastCall.op = "episode"
    /\ Len(lastCall.urls) = 2
    /\ ~lastCall.results[1].processed
    /\ lastCall.results[2].processed
    /\ lastCall.passes[2].wrote

-----------------------------------------------------------------------------
(* C12: a cover or episode image that cannot be acquired raises nothing at  *)
(* the extraction: the series keeps the remote cover URL and has no local   *)
(* cover path; the episode lists every remote URL, and its local paths are  *)
(* those of the images that were stored.                                    *)

\* does acquisition i of the call fail?
C12_Fails(c, i) ==
    \/ ~c.dirOk
    \/ DownloadAndProcessImage(c.filesBefore, c.urls[i], c.paths[i], c.envs[i]).thrown

C12_Cover ==
    (lastRecord.op = "cover" /\ lastRecord.urls[1] # "") =>
        /\ ~lastRecord.thrown
        /\ lastRecord.record.cover = lastRecord.urls[1]
        /\ C12_Fails(lastRecord, 1) => lastRecord.record.localCoverPath = NoPath
        /\ ~C12_Fails(lastRecord, 1) =>
              lastRecord.record.localCoverPath = <<"series", "a", "cover.webp">>

C12_Episode ==
    lastRecord.op = "episode" =>
        /\ ~lastRecord.thrown
        /\ lastRecord.record.images = lastRecord.urls
        /\ \A i \in 1..Len(lastRecord.urls) :
              C12_Fails(lastRecord, i) <=>
                  ~\E k \in 1..Len(lastRecord.record.localImagesPath) :
                       lastRecord.record.localImagesPath[k] = lastRecord.paths[i]

C12_RemoteUrlKept == C12_Cover /\ C12_Episode

C12_Witness ==
    /\ lastRecord.op = "episode"
    /\ lastRecord.dirOk
    /\ Len(lastRecord.urls) = 2
    /\ C12_Fails(lastRecord, 1)
    /\ ~C12_Fails(lastRecord, 2)
    /\ lastRecord.record.images = lastRecord.urls
    /\ lastRecord.record.localImagesPath = <<lastRecord.paths[2]>>

-----------------------------------------------------------------------------
(* Job attempts next to the proxy rotation manager *)

MaxSessionJobs == 2

\* the proxy initialize() launches the browser with: the source row's proxyConfig
SessionProxy(configs, data) == configs[data.sourceId]

\* does the attempt get as far as launching a browser?
AcquiresSession(rows, data, env) == HasManager(rows, data) /\ env # "launchFails"

\* what an attempt does to the ProxyService: processScrapingJob, the managers
\* and the worker's catch make no call to it
AttemptProxyEffect(p, data, env) == p

\* one run of the processor for job j, with what it took from and told the
\* proxy service
WorkerAttempt(j, env) ==
    /\ j \in JobIds(jobs)
    /\ jobs[j].state = "active"
    /\ LET data == jobs[j].data
           r == ProcessScrapingJob(sources, data, env)
           after == AttemptProxyEffect(Svc, data, env)
           key == CurrentProxy(Svc)
       IN  /\ jobs' = IF r.thrown THEN MoveToFailed(jobs, j) ELSE MoveToCompleted(jobs, j)
           /\ openContexts' = openContexts + r.opened
           /\ SetSvc(after)
           /\ lastAttempt' =
                 [job |-> j, env |-> env, thrown |-> r.thrown,
                  acquired |-> AcquiresSession(sources, data, env),
                  sessionProxy |-> SessionProxy(proxyConfig, data),
                  current |-> key,
                  indexBefore |-> currentProxyIndex,
                  indexAfter |-> after.currentProxyIndex,
                  requestsBefore |-> StatsOf(proxyStats, key).requests,
                  requestsAfter |-> StatsOf(after.proxyStats, key).requests,
                  failuresBefore |-> StatsOf(proxyStats, key).failures,
                  failuresAfter |-> StatsOf(after.proxyStats, key).failures]
    /\ UNCHANGED <<lastRange, lastProxyCall, rotationRun, proxyConfig, lastRecord, db, downloads, lastScrape, callbacks>>
    /\ UNCHANGED <<schedVars, imageVars>>

\* one or two endpoints; the active source's row with or without a proxy_config
SessionInit ==
    /\ sources = QueueSources
    /\ InitSched
    /\ InitQueue
    /\ InitImages
    /\ \E list \in {LoadProxies(<<>>), LoadProxies(<<"p1">>)} : InitProxy(list)
    /\ \E c \in {NoProxy, "p0", "p1"} :
          proxyConfig = [s \in JobSourceIds |-> IF s = "s1" THEN c ELSE NoProxy]
    /\ lastAttempt = [job |-> 0]
    /\ lastRecord = [op |-> "none"]
    /\ InitData

SessionNext ==
    \/ StartScrapingCall("s1", "recent") /\ Len(jobs') <= MaxSessionJobs
    \/ \E j \in 1..MaxSessionJobs : WorkerPull(j)
    \/ \E j \in 1..MaxSessionJobs, env \in Envs : WorkerAttempt(j, env)
    \/ \E j \in 1..MaxSessionJobs : BackoffElapsed(j)
    \/ RotateProxyCall

SpecSessions == SessionInit /\ [][SessionNext]_vars

-----------------------------------------------------------------------------
(* C17: a session acquired for a job uses the endpoint getCurrentProxy      *)
(* returns at that time: the acquisition makes one getCurrentProxy call and *)
(* the session's proxy is its result.                                       *)

C17_SessionUsesCurrentProxy ==
    (lastAttempt.job # 0 /\ lastAttempt.acquired) =>
        /\ lastAttempt.sessionProxy = lastAttempt.current
        /\ lastAttempt.requestsAfter = lastAttempt.requestsBefore + 1

-----------------------------------------------------------------------------
(* C18: an attempt that fails on a page fetch reports the failure to the    *)
(* proxy rotation manager: with at least 2 endpoints the current endpoint   *)
(* has a failure more and the index has moved on when the attempt ends.     *)

C18_FailureReported ==
    (/\ lastAttempt.job # 0
     /\ lastAttempt.thrown
     /\ lastAttempt.env \in {"gotoFails", "scrapeFails"}
     /\ Len(proxies) >= 2) =>
        /\ lastAttempt.failuresAfter = lastAttempt.failuresBefore + 1
        /\ lastAttempt.indexAfter = (lastAttempt.indexBefore + 1) % Len(proxies)

-----------------------------------------------------------------------------
(* C19: when stopAllSchedules returns no timer is left that can tick, no    *)
(* timer is registered, the scheduler reports not running, and the jobs     *)
(* already in the queue are still there.                                    *)

C19_Stopped ==
    StopAllSchedulesCall =>
        /\ \A t \in DOMAIN timers' : ~timers'[t].running
        /\ scheduledTasks' = EmptyMap
        /\ ~isSchedulerRunning'
        /\ jobs' = jobs

C19_StopCancelsTicks == [][C19_Stopped]_vars

-----------------------------------------------------------------------------
(* C20: updateScheduleForSource(s, m) leaves s registered with a newly      *)
(* created timer of cadence m, and the timer registered for s before is     *)
(* stopped, registered for no source, and never runs again.                 *)

C20_Replaced(st, s, m) ==
    LET r == UpdateScheduleForSource(st, s, m)
    IN  /\ s \in DOMAIN r.scheduledTasks
        /\ r.scheduledTasks[s] = Len(st.timers) + 1
        /\ r.timers[r.scheduledTasks[s]].sourceId = s
        /\ r.timers[r.scheduledTasks[s]].interval = m
        /\ r.timers[r.scheduledTasks[s]].running = st.isSchedulerRunning
        /\ s \in DOMAIN st.scheduledTasks =>
              /\ ~r.timers[st.scheduledTasks[s]].running
              /\ \A x \in DOMAIN r.scheduledTasks :
                    r.scheduledTasks[x] # st.scheduledTasks[s]

C20_Update == \A s \in SourceIds, m \in Intervals : C20_Replaced(Sched, s, m)

Registered(t) == \E x \in DOMAIN scheduledTasks : scheduledTasks[x] = t

C20_NeverAgain ==
    \A t \in DOMAIN timers :
        (~timers[t].running /\ ~Registered(t)) => ~timers'[t].running

C20_AtomicReplace == []C20_Update /\ [][C20_NeverAgain]_vars

C20_Witness ==
    \E s \in DOMAIN scheduledTasks :
        /\ timers[scheduledTasks[s]].interval = 30
        /\ timers[scheduledTasks[s]].running
        /\ \E t \in DOMAIN timers :
              /\ t = scheduledTasks[s] - 1
              /\ timers[t].sourceId = s
              /\ timers[t].interval = 60
              /\ ~timers[t].running
              /\ ~Registered(t)

-----------------------------------------------------------------------------
(* C21: the three schedule states of a source *)

\* the state of a source as its registration and its cron task show it
ScheduleState(st, s) ==
    IF s \notin DOMAIN st.scheduledTasks THEN "unscheduled"
    ELSE IF st.timers[st.scheduledTasks[s]].running THEN "scheduled-running"
    ELSE "scheduled-stopped"

C21_Pause(st, s) ==
    LET r == PauseScheduleForSource(st, s)
    IN  IF ScheduleState(st, s) = "scheduled-running"
        THEN /\ PauseScheduleForSourceReturns(st, s)
             /\ ScheduleState(r, s) = "scheduled-stopped"
             /\ r.scheduledTasks = st.scheduledTasks
             /\ r.timers = StopTask(st.timers, st.scheduledTasks[s])
        ELSE ~PauseScheduleForSourceReturns(st, s) /\ r = st

C21_Start(st, s) ==
    LET r == StartScheduleForSource(st, s)
    IN  IF ScheduleState(st, s) = "scheduled-stopped"
        THEN /\ StartScheduleForSourceReturns(st, s)
             /\ ScheduleState(r, s) = "scheduled-running"
             /\ r.scheduledTasks = st.scheduledTasks
             /\ r.timers = StartTask(st.timers, st.scheduledTasks[s])
        ELSE ~StartScheduleForSourceReturns(st, s) /\ r = st

C21_Stop(st, s) ==
    LET r == StopScheduleForSource(st, s)
    IN  /\ ScheduleState(r, s) = "unscheduled"
        /\ s \in DOMAIN st.scheduledTasks => ~r.timers[st.scheduledTasks[s]].running

\* C21: in every reachable scheduler state and for every source, pausing a
\* running source stops its timer, keeps it registered and returns true;
\* starting a registered stopped source restarts that same timer and returns
\* true; each returns false and changes nothing otherwise; stopScheduleForSource
\* leaves the source unscheduled with its timer stopped.
C21_ThreeStates ==
    \A s \in SourceIds : C21_Pause(Sched, s) /\ C21_Start(Sched, s) /\ C21_Stop(Sched, s)

\* a source paused while the scheduler runs: registered, its timer stopped
C21_Witness ==
    /\ isSchedulerRunning
    /\ \E s \in DOMAIN scheduledTasks :
          /\ ScheduleState(Sched, s) = "scheduled-stopped"
          /\ \E x \in DOMAIN scheduledTasks : ScheduleState(Sched, x) = "scheduled-running"

-----------------------------------------------------------------------------
(* C22: one recent job per tick, the callback returns at the enqueue *)

\* the callbacks that have returned after their add resolved
Returned == {c \in DOMAIN callbacks : callbacks[c].at = "returned"}

\* every job in the queue was admitted by exactly one returned callback, as a
\* recent job of that callback's source
C22_OneJobPerTick ==
    /\ Len(jobs) = Cardinality(Returned)
    /\ \A c \in Returned :
          /\ callbacks[c].job \in JobIds(jobs)
          /\ jobs[callbacks[c].job].data =
                JobData(callbacks[c].sourceId, "recent", 1, NoUrl, NoUrl)
          /\ \A d \in Returned : callbacks[d].job = callbacks[c].job => d = c

\* the step in which a callback stops awaiting: it returns with its job still
\* waiting in the queue, or it catches the rejection with the queue untouched;
\* either way the task that fired it is as live as before
C22_Settles ==
    \A c \in DOMAIN callbacks :
        (callbacks[c].at = "adding" /\ callbacks'[c].at # "adding") =>
            /\ timers' = timers
            /\ \A j \in JobIds(jobs) : jobs'[j] = jobs[j]
            /\ callbacks'[c].at = "returned" =>
                  /\ Len(jobs') = Len(jobs) + 1
                  /\ jobs'[Len(jobs')].state = "waiting"
                  /\ jobs'[Len(jobs')].data.sourceId = timers[callbacks[c].timer].sourceId
                  /\ jobs'[Len(jobs')].data.type = "recent"
            /\ callbacks'[c].at = "caught" => jobs' = jobs

\* C22: each tick of a live timer admits exactly one recent job for the timer's
\* source; the callback has returned at the step that enqueues the job, with
\* the job still waiting; a rejected enqueue is caught, admits nothing and
\* leaves the timer live.
C22_TickEnqueuesAndReturns == []C22_OneJobPerTick /\ [][C22_Settles]_vars

\* a timer whose first callback caught a rejected add and whose later callback
\* returned while an earlier job of another tick is still being processed
C22_Witness ==
    \E c, d, e \in DOMAIN callbacks :
        /\ c < d
        /\ callbacks[c].timer = callbacks[d].timer
        /\ callbacks[c].at = "caught"
        /\ callbacks[d].at = "returned"
        /\ callbacks[e].at = "returned"
        /\ jobs[callbacks[e].job].state = "active"
        /\ jobs[callbacks[d].job].state = "waiting"

-----------------------------------------------------------------------------
(* C29: the local path is an injective function of the ids and the position *)

C29_Format ==
    /\ (lastScrape.x = [seriesId |-> "a", episodeId |-> "b-1", position |-> 1]) =>
          /\ lastScrape.pageX = "series/a/episodes/b-1/001.webp"
          /\ lastScrape.coverX = "series/a/cover.webp"
    /\ (lastScrape.y = [seriesId |-> "b", episodeId |-> "a-1", position |-> 10]) =>
          lastScrape.pageY = "series/b/episodes/a-1/010.webp"

\* C29: the path of a cover depends on the series id only, the path of a page
\* on (seriesId, episodeId, position) only, in the documented layout with the
\* 1-based position padded to three digits; two pages have the same path only
\* if their triples are equal, two covers only if their series ids are equal,
\* and a page never has the path of a cover.
C29_PathsInjective ==
    lastScrape.op = "paths" =>
        /\ C29_Format
        /\ lastScrape.pageX = lastScrape.pageY <=> lastScrape.x = lastScrape.y
        /\ lastScrape.coverX = lastScrape.coverY <=> lastScrape.x.seriesId = lastScrape.y.seriesId
        /\ lastScrape.pageX # lastScrape.coverY

\* two pages of the same episode id and position under different series
C29_Witness ==
    /\ lastScrape.op = "paths"
    /\ lastScrape.x.seriesId # lastScrape.y.seriesId
    /\ lastScrape.x.episodeId = lastScrape.y.episodeId
    /\ lastScrape.x.position = 10
    /\ lastScrape.y.position = 10
    /\ lastScrape.pageX # lastScrape.pageY

-----------------------------------------------------------------------------
(* C30: two jobs acquiring the same path at the same time *)

\* the calls of w whose latest run fetched the remote bytes and wrote the file
FetchedAndWrote(w) ==
    w \in DOMAIN downloads /\ downloads[w].fetched /\ downloads[w].wrote

\* C30: of two jobs whose acquisitions target the same local path, at most one
\* fetches the remote bytes and writes the file.
C30_AtMostOneWriter ==
    \A v \in Callers, w \in Callers :
        (v # w /\ FetchedAndWrote(v) /\ FetchedAndWrote(w)) =>
            downloads[v].path # downloads[w].path

-----------------------------------------------------------------------------
(* C24: the ids of two runs over the same URL and page *)

\* C24: two runs of getSeriesData over the same series URL and the same page
\* derive the same series id and the same episode ids, also when the URL ends
\* with a slash.
C24_SameIdsOnEveryRun ==
    (/\ lastScrape.op = "getSeriesData"
     /\ Len(lastScrape.runs) = 2
     /\ ~lastScrape.runs[1].thrown
     /\ ~lastScrape.runs[2].thrown) =>
        /\ lastScrape.runs[1].series.id = lastScrape.runs[2].series.id
        /\ [i \in DOMAIN lastScrape.runs[1].series.episodes |->
                lastScrape.runs[1].series.episodes[i].id]
           = [i \in DOMAIN lastScrape.runs[2].series.episodes |->
                lastScrape.runs[2].series.episodes[i].id]

-----------------------------------------------------------------------------
(* C26: episode ordinals are not negative *)

\* the episode element of the page, and the episodes of the runs made so far
Element == lastScrape.page.episodes[1]
RunEpisodes ==
    UNION {{r.series.episodes[i] : i \in DOMAIN r.series.episodes} :
              r \in {lastScrape.runs[k] : k \in {k \in DOMAIN lastScrape.runs :
                                                    ~lastScrape.runs[k].thrown}}}

HasDigit(text) == \E i \in DOMAIN text : text[i] \in DigitChars

\* C26: extractEpisodeNumber returns a number >= 0 or the sentinel -1, the
\* sentinel for every name without a digit; every episode of a record that
\* getSeriesData returns and every episode row has an ordinal >= 0, an element
\* whose ordinal is the sentinel, negative or not a number being left out.
C26_OrdinalsNotNegative ==
    lastScrape.op = "getSeriesData" =>
        /\ LET n == ExtractEpisodeNumber(Element.name)
           IN  /\ n = MinusOne \/ GreaterEqualZero(n)
               /\ ~HasDigit(Element.name) => n = MinusOne
        /\ \A e \in RunEpisodes : GreaterEqualZero(e.number)
        /\ \A id \in DOMAIN db.episodes : GreaterEqualZero(db.episodes[id].number)
        /\ \A k \in DOMAIN lastScrape.runs :
              (/\ ~lastScrape.runs[k].thrown
               /\ ~GreaterEqualZero(EpisodeNumber(lastScrape.theme, Element))) =>
                    lastScrape.runs[k].series.episodes = <<>>

\* a name with a minus sign and a digit was read, and a data-num that is
\* negative was left out
C26_Witness ==
    /\ lastScrape.op = "getSeriesData"
    /\ lastScrape.theme = "madara"
    /\ Element.name = <<"x", "-", "5">>
    /\ Len(lastScrape.runs) = 1
    /\ \E e \in RunEpisodes : e.number = Num(5000)
    /\ db.inserted = 2

-----------------------------------------------------------------------------
(* C28: a reader page without the marker, or with a broken list *)

Tolerated == {"noMarker", "noData", "malformed"}

-----------------------------------------------------------------------------
(* C23: saving the same list twice *)

\* C23: after saveSeriesToDatabase has run twice on the same list, the series
\* ids and the episode ids in the tables are those the first run left, and the
\* second run inserted no row.
C23_SecondRunInsertsNothing ==
    (lastScrape.op = "saveSeriesToDatabase" /\ Len(lastScrape.runs) = 2) =>
        /\ DOMAIN lastScrape.runs[2].series = DOMAIN lastScrape.runs[1].series
        /\ DOMAIN lastScrape.runs[2].episodes = DOMAIN lastScrape.runs[1].episodes
        /\ lastScrape.runs[2].inserted = lastScrape.runs[1].inserted
        /\ db = lastScrape.runs[2]

\* two series with two episodes each were saved twice
C23_Witness ==
    /\ lastScrape.op = "saveSeriesToDatabase"
    /\ Len(lastScrape.runs) = 2
    /\ Cardinality(DOMAIN db.series) = 2
    /\ Cardinality(DOMAIN db.episodes) = 2
    /\ db.inserted = 4

-----------------------------------------------------------------------------
(* C27: an episode with a fractional ordinal *)

ListedEpisodes ==
    UNION {{lastScrape.seriesList[i].episodes[k] : k \in DOMAIN lastScrape.seriesList[i].episodes} :
              i \in DOMAIN lastScrape.seriesList}

\* C27: once saveSeriesToDatabase has run, an episode of the list whose ordinal
\* has a fraction and whose id was new has a row, and the row's ordinal is the
\* parsed value.
C27_FractionalOrdinalStored ==
    (lastScrape.op = "saveSeriesToDatabase" /\ Len(lastScrape.runs) >= 1) =>
        \A e \in ListedEpisodes :
            (/\ IsFractional(e.number)
             /\ \A f \in ListedEpisodes : f.id = e.id => f = e) =>
                /\ e.id \in DOMAIN db.episodes
                /\ db.episodes[e.id].number = e.number

-----------------------------------------------------------------------------
(* C25: a series that fails, an index page that fails *)

\* the cards of the index page whose series getSeriesData returns
Scraped(theme, cards) ==
    {i \in DOMAIN cards :
        LET href == IF theme = "uzay" THEN RemapHref(cards[i].href) ELSE cards[i].href
        IN  href # <<>> /\ ~GetSeriesData(theme, href, cards[i].page, FixedRandom).thrown}

\* `list` holds the records of the cards in `kept`, each once, in page order
InPageOrder(theme, cards, kept, list) ==
    /\ Len(list) = Cardinality(kept)
    /\ \E f \in [DOMAIN list -> kept] :
          /\ \A a, b \in DOMAIN list : a < b => f[a] < f[b]
          /\ \A a \in DOMAIN list :
                list[a] = GetSeriesData(theme,
                              IF theme = "uzay" THEN RemapHref(cards[f[a]].href) ELSE cards[f[a]].href,
                              cards[f[a]].page, FixedRandom).series

\* the attempt recorded in lastScrape, with the job as it left it
C25_Attempt ==
    lastScrape.op = "getFullSeries" =>
        LET job == jobs[lastScrape.job]
            cards == lastScrape.index.cards
        IN  IF lastScrape.index.fetch = "ok"
            THEN /\ ~lastScrape.result.thrown
                 /\ InPageOrder(lastScrape.theme, cards, Scraped(lastScrape.theme, cards),
                                lastScrape.result.series)
                 /\ job.attemptsMade = lastScrape.attemptsMade =>
                        job.state = "completed"
            ELSE /\ lastScrape.result.thrown
                 /\ job.attemptsMade > lastScrape.attemptsMade
                 /\ job.state # "completed"

\* an attempt of a recent or full job ends completed unless the index page could
\* not be fetched, and then it has used up one attempt
C25_Step ==
    \A j \in JobIds(jobs) :
        (jobs[j].state = "active" /\ jobs'[j].state # "active") =>
            /\ lastScrape'.job = j
            /\ IF lastScrape'.index.fetch = "ok"
               THEN jobs'[j].state = "completed" /\ jobs'[j].attemptsMade = jobs[j].attemptsMade
               ELSE /\ jobs'[j].attemptsMade = jobs[j].attemptsMade + 1
                    /\ jobs'[j].state = IF jobs'[j].attemptsMade < Attempts
                                        THEN "delayed" ELSE "failed"

\* C25: when getSeriesData throws for some cards of an index page, getFullSeries
\* returns the records of all other cards in page order and the attempt
\* completes; when the index page cannot be fetched, the throw leaves
\* processScrapingJob, the attempt fails and one attempt is used up.
C25_PerSeriesIsolation == []C25_Attempt /\ [][C25_Step]_vars

\* a completed attempt on a page of two cards, the first of which threw
C25_Witness ==
    /\ lastScrape.op = "getFullSeries"
    /\ lastScrape.index.fetch = "ok"
    /\ Len(lastScrape.index.cards) = 2
    /\ lastScrape.index.cards[1].page.fetch = "fails"
    /\ Len(lastScrape.result.series) = 1
    /\ jobs[lastScrape.job].state = "completed"
    /\ Cardinality(DOMAIN db.series) = 1

-----------------------------------------------------------------------------
(* C31: what a processed = true result says about the file *)

\* C31: a call returns (processed = true) for a path only if some call's
\* writeFile on that path has completed without error.
C31_ProcessedOnlyAfterCompletedWrite ==
    \A w \in Callers :
        (w \in DOMAIN downloads /\ downloads[w].at = "returned") =>
            downloads[w].path \in CompletedWrites

-----------------------------------------------------------------------------
(* C32: the four counts of getQueueStatus *)

\* the lists of a returned status that hold job j
CountedIn(j) == {i \in 1..4 : j \in lastScrape.lists[i]}

\* C32: in a returned status no job is counted in two of waiting, active,
\* completed and failed, and every job that was admitted when the query began
\* and has not reached a terminal state since is counted in one of them.
C32_OneInstant ==
    (lastScrape.op = "getQueueStatus" /\ lastScrape.at = 5) =>
        \A j \in lastScrape.admitted :
            /\ Cardinality(CountedIn(j)) <= 1
            /\ jobs[j].state \notin {"completed", "failed"} => CountedIn(j) # {}

-----------------------------------------------------------------------------
(* C33: the URL of series and episode jobs *)

\* C33: every admitted job of kind series carries a series URL and every
\* admitted job of kind episode carries an episode URL.
C33_JobsCarryTheirUrl ==
    \A j \in JobIds(jobs) :
        /\ jobs[j].data.type = "series" => jobs[j].data.seriesUrl # NoUrl
        /\ jobs[j].data.type = "episode" => jobs[j].data.episodeUrl # NoUrl

-----------------------------------------------------------------------------
(* C34: two startAllSchedules calls awaiting the active-source query at once *)

\* the second of two overlapping calls completes: the other call has set the
\* running flag while this one, having read it as false, awaited its query
SecondOverlappingCallCompletes ==
    /\ startAllPending = 1
    /\ isSchedulerRunning
    /\ startAllPending' = 0

\* C34: when the second of two overlapping startAllSchedules calls completes,
\* the only live timer of every scheduled source is the one scheduledTasks
\* references, and no other timer is live.
C34_OverlapLeavesOneTimer ==
    [][SecondOverlappingCallCompletes =>
          /\ \A s \in DOMAIN scheduledTasks' :
                {t \in DOMAIN timers' : timers'[t].sourceId = s /\ timers'[t].running}
                    = {scheduledTasks'[s]}
          /\ \A t \in DOMAIN timers' :
                timers'[t].running =>
                    \E s \in DOMAIN scheduledTasks' : scheduledTasks'[s] = t]_vars

-----------------------------------------------------------------------------
(* C35: the timer of a source after updateScheduleForSource *)

C35_Updated(st, s, m) ==
    LET r == UpdateScheduleForSource(st, s, m)
    IN  /\ r.isSchedulerRunning = st.isSchedulerRunning
        /\ ScheduleState(r, s) = IF st.isSchedulerRunning
                                 THEN "scheduled-running" ELSE "scheduled-stopped"
        /\ IsRunning(r, s) = st.isSchedulerRunning

\* C35: in every reachable scheduler state, whether s is unscheduled, paused or
\* running there, updateScheduleForSource(s, m) leaves s registered with a
\* timer that runs exactly when isSchedulerRunning is set.
C35_RunsIffSchedulerRuns ==
    \A s \in SourceIds, m \in Intervals : C35_Updated(Sched, s, m)

\* the three prior states under a running scheduler, and an update made while
\* the scheduler is stopped: registered with the new cadence, not started
C35_PausedWhileRunning ==
    /\ isSchedulerRunning
    /\ \E s \in SourceIds : ScheduleState(Sched, s) = "scheduled-stopped"
    /\ \E s \in SourceIds : ScheduleState(Sched, s) = "unscheduled"

C35_Witness ==
    /\ ~isSchedulerRunning
    /\ \E s \in DOMAIN scheduledTasks :
          /\ timers[scheduledTasks[s]].interval = 30
          /\ ~timers[scheduledTasks[s]].running
          /\ \E t \in DOMAIN timers :
                t # scheduledTasks[s] /\ timers[t].sourceId = s /\ timers[t].interval = 60

-----------------------------------------------------------------------------
(* C36: several reports against the same endpoint *)

\* the position of endpoint p in a list without repetitions
IndexOfProxy(p) == CHOOSE i \in 0..(Len(proxies) - 1) : proxies[i + 1] = p

\* C36: with at least 2 distinct endpoints, once every worker that obtained
\* endpoint p has reported its failure (and no other endpoint was reported),
\* the current endpoint is the one after p: not p, and no endpoint skipped.
C36_ReportsLeaveP ==
    \A p \in ListedProxies :
        (/\ Len(proxies) >= 2
         /\ \A i, j \in DOMAIN proxies : proxies[i] = proxies[j] => i = j
         /\ \E w \in ProxyWorkers : Obtained(w) = p
         /\ \A w \in ProxyWorkers : Obtained(w) \in {p, NoProxy}
         /\ \A w \in ProxyWorkers : Obtained(w) = p => Reported(w)) =>
            /\ CurrentProxy(Svc) # p
            /\ currentProxyIndex = (IndexOfProxy(p) + 1) % Len(proxies)

-----------------------------------------------------------------------------
(* C37: what rotateProxy changes *)

\* C37: a rotateProxy call changes no endpoint's request count or failure
\* count and no failed marker, for lists of every length.
C37_RotateOnlyMovesIndex ==
    [][lastProxyCall'.op = "rotateProxy" =>
          /\ proxyStats' = proxyStats
          /\ failedProxies' = failedProxies
          /\ proxies' = proxies]_vars

-----------------------------------------------------------------------------
(* C38: the bytes behind a processed result *)

\* C38: every result of storeEpisodeImages with processed = true and cdnUrl u
\* names a local file whose bytes were fetched from u.
C38_FileIsFromCdnUrl ==
    lastCall.op = "episode" =>
        \A i \in DOMAIN lastCall.results :
            lastCall.results[i].processed =>
                /\ lastCall.results[i].localPath \in DOMAIN OriginOf
                /\ OriginOf[lastCall.results[i].localPath] = lastCall.results[i].cdnUrl

-----------------------------------------------------------------------------
(* C39: the ids of two different series *)

EpisodeIdsOf(run) == {run.series.episodes[i].id : i \in DOMAIN run.series.episodes}

\* C39: two series scraped from different URLs get different series ids and
\* their episodes different episode ids, so both have their own rows.
C39_IdsDoNotCollide ==
    (/\ lastScrape.op = "twoSeries"
     /\ Len(lastScrape.runs) = 2
     /\ ~lastScrape.runs[1].thrown
     /\ ~lastScrape.runs[2].thrown
     /\ lastScrape.items[1].url # lastScrape.items[2].url) =>
        /\ lastScrape.runs[1].series.id # lastScrape.runs[2].series.id
        /\ EpisodeIdsOf(lastScrape.runs[1]) \cap EpisodeIdsOf(lastScrape.runs[2]) = {}
        /\ Cardinality(DOMAIN db.series) = 2

-----------------------------------------------------------------------------
(* C40: what a single-episode job leaves behind *)

\* the run of the processor for an episode job ends in this step
EpisodeJobEnds ==
    \E j \in JobIds(jobs) :
        /\ jobs[j].data.type = "episode"
        /\ jobs[j].state = "active"
        /\ jobs'[j].state # "active"

====
